---- MODULE Spec2Model ----
(***************************************************************************)
(* A model of the GitHub posture collector: the glob pattern matcher, the  *)
(* scope filter, the metrics aggregator, the posture calculator and the    *)
(* three-phase Collect orchestration.                                      *)
(*                                                                         *)
(* A string is a sequence of one-character strings, so that the matcher    *)
(* can walk it rune by rune as the code does.                              *)
(***************************************************************************)
EXTENDS Integers, Sequences, FiniteSets, TLC

VARIABLES
    \* ---- Collect (collector.go) ----
    pc,               \* position inside Collect
    organization,     \* c.config.Organization
    cfgInclude,       \* c.config.IncludePatterns
    cfgExclude,       \* c.config.ExcludePatterns
    cfgNil,           \* which of the two pattern lists is a nil slice
    callbacks,        \* "set" when c.config.OnStatus and c.config.OnProgress
                      \* are functions, "nil" when both are nil
    ctxDone,          \* the ctx given to Collect is cancelled
    includePatterns,  \* Collect's local includePatterns (after defaulting)
    orgSecurity,      \* value returned by FetchOrgSecurity
    metrics,          \* the metricsAggregator of the running Collect
    hasNextPage,      \* PageInfo.HasNextPage of the last page delivered
    idx,              \* position of the range loop of fetchSecuritySettings
    posture,          \* the *OrgPosture returned (Nil = nil)
    err,              \* the error returned (Nil = nil)
    calls,            \* history: the client calls and steps, in order
    shadow,           \* history: metrics had every failed settings fetch
                      \* returned an all-false value instead
    notes,            \* history: the invocations of OnStatus and OnProgress
    \* ---- two Collect calls against the same upstream ----
    run,              \* 1 during the first call, 2 during the second
    settingsOf,       \* upstream: the answer of FetchSecuritySettings for
                      \* each repository
    tape,             \* upstream: what the first call was answered
    plan,             \* the pages the second call is delivered
    first,            \* what the first call returned
    \* ---- inputs/outputs of the pure functions ----
    fnName, fnPattern, fnResult,   \* pattern.go
    fnCount, fnTotal,              \* percent
    fnMetrics,                     \* securityFeaturesCoverage
    fnRest,                        \* FetchOrgSecurity: what the REST call does
    fnValue,                       \* the value returned (Nil = not yet)
    \* ---- the aggregator on its own (metrics.go) ----
    aggMetrics,       \* the metricsAggregator
    aggBefore,        \* history: the aggregator before its last operation
    aggOp,            \* history: the last operation and its argument
    aggFetched,       \* how many settings values have been counted
    \* ---- Client.FetchRepositories (github client) ----
    clPc,             \* position inside FetchRepositories
    cursor,           \* the local cursor (Nil = nil)
    query,            \* the local query: the last response
    clErr,            \* the error returned (Nil = nil)
    clLog             \* history: queries, callbacks and the return, in order

\* the configuration of the Collector and the ctx argument of Collect
configVars == <<organization, cfgInclude, cfgExclude, cfgNil, callbacks,
                ctxDone>>

collectVars == <<pc, configVars, includePatterns, orgSecurity, metrics,
                 hasNextPage, idx, posture, err, calls, shadow, notes>>

replayVars == <<run, settingsOf, tape, plan, first>>

fnVars == <<fnName, fnPattern, fnResult, fnCount, fnTotal, fnMetrics,
           fnRest, fnValue>>

aggVars == <<aggMetrics, aggBefore, aggOp, aggFetched>>

clientVars == <<clPc, cursor, query, clErr, clLog>>

\* what Collect never reads or writes
pureVars == <<fnVars, aggVars, clientVars>>

\* what a single Collect call leaves alone
restVars == <<replayVars, pureVars>>

vars == <<collectVars, replayVars, pureVars>>

-----------------------------------------------------------------------------
(* Bounds *)

\* longest name and longest pattern given to MatchesPattern
MaxLen == 3
\* most repositories the organization returns over all pages
MaxRepos == 2
\* most repositories in one page
MaxPageLen == 2

-----------------------------------------------------------------------------
(* Program constants (constants.go) *)

DefaultIncludePattern == <<"*">>
NumSecurityFeatures == 5
MaxPercentage == 100

-----------------------------------------------------------------------------
(* Sequences of bounded length *)

RECURSIVE SeqsUpTo(_, _)
SeqsUpTo(S, n) ==
    IF n = 0 THEN {<< >>}
    ELSE LET shorter == SeqsUpTo(S, n - 1)
         IN  shorter \cup {Append(s, x) : s \in shorter, x \in S}

-----------------------------------------------------------------------------
(* Pattern matcher: MatchesPattern *)

\* the characters the switch escapes with a backslash
RegexSpecialChars ==
    {".", "+", "^", "$", "{", "}", "(", ")", "|", "[", "]", "\\"}

\* a translation that forgets to escape the dot
TranslateCharNoDotEscape(char) ==
    IF char = "*" THEN <<".", "*">>
    ELSE IF char = "?" THEN <<".">>
    ELSE IF char \in (RegexSpecialChars \ {"."}) THEN <<"\\", char>>
    ELSE <<char>>

\* the body of the range loop: the regex text written for one pattern rune
TranslateChar(char) ==
    IF char = "*" THEN <<".", "*">>
    ELSE IF char = "?" THEN <<".">>
    ELSE IF char \in RegexSpecialChars THEN <<"\\", char>>
    ELSE <<char>>

RECURSIVE TranslateRunes(_)
TranslateRunes(pattern) ==
    IF pattern = << >> THEN << >>
    ELSE TranslateChar(Head(pattern)) \o TranslateRunes(Tail(pattern))

\* the regex source text built in regexPattern: "^" ... "$"
GlobToRegex(pattern) == <<"^">> \o TranslateRunes(pattern) \o <<"$">>

(* regexp.Compile, for the part of the regex syntax the translation can    *)
(* write: anchors, the dot, a backslash-escaped punctuation character, a   *)
(* literal, each optionally followed by one repetition operator.  Groups,  *)
(* classes and alternation are never written unescaped; the model reports  *)
(* them as "bad" (Compile fails) instead of giving them a meaning.         *)
RegexPunct == RegexSpecialChars \cup {"*", "?"}

RegexQuantifiers == {"*", "+", "?"}

RegexAtomAt(re, i) ==
    LET c == re[i] IN
    IF c = "\\" THEN
        IF i + 1 <= Len(re) /\ re[i + 1] \in RegexPunct
        THEN [kind |-> "lit", ch |-> re[i + 1], width |-> 2]
        ELSE [kind |-> "bad", ch |-> c, width |-> 1]
    ELSE IF c = "." THEN [kind |-> "any", ch |-> c, width |-> 1]
    ELSE IF c = "^" THEN [kind |-> "bot", ch |-> c, width |-> 1]
    ELSE IF c = "$" THEN [kind |-> "eot", ch |-> c, width |-> 1]
    ELSE IF c \in RegexQuantifiers \cup {"(", ")", "[", "|"}
         THEN [kind |-> "bad", ch |-> c, width |-> 1]
    ELSE [kind |-> "lit", ch |-> c, width |-> 1]

RECURSIVE RegexParse(_, _)
RegexParse(re, i) ==
    IF i > Len(re) THEN << >>
    ELSE LET a == RegexAtomAt(re, i)
             q == i + a.width
             quantified == q <= Len(re) /\ re[q] \in RegexQuantifiers
             \* a repetition operator stacked on another is a syntax error
             nested == quantified /\ q + 1 <= Len(re)
                          /\ re[q + 1] \in RegexQuantifiers
             tok == [kind  |-> IF nested THEN "bad" ELSE a.kind,
                     ch    |-> a.ch,
                     quant |-> IF quantified THEN re[q] ELSE "1"]
         IN  <<tok>> \o RegexParse(re, IF quantified THEN q + 1 ELSE q)

RegexCompiles(prog) == \A k \in 1..Len(prog) : prog[k].kind # "bad"

\* one token against the text at position j: zero-width for an anchor
RegexAssertion(tok) == tok.kind \in {"bot", "eot"}

RegexAssertHolds(tok, s, j) ==
    IF tok.kind = "bot" THEN j = 1 ELSE j = Len(s) + 1

\* without the s flag the dot matches any character except a line feed
RegexCharOk(tok, c) ==
    IF tok.kind = "any" THEN c # "\n" ELSE c = tok.ch

RECURSIVE RegexMatchFrom(_, _, _, _)
RegexMatchFrom(prog, k, s, j) ==
    IF k > Len(prog) THEN TRUE
    ELSE LET tok == prog[k]
             one == IF RegexAssertion(tok)
                    THEN RegexAssertHolds(tok, s, j)
                    ELSE j <= Len(s) /\ RegexCharOk(tok, s[j])
             nj  == IF RegexAssertion(tok) THEN j ELSE j + 1
         IN  CASE tok.quant = "1" ->
                    one /\ RegexMatchFrom(prog, k + 1, s, nj)
               [] tok.quant = "?" ->
                    \/ RegexMatchFrom(prog, k + 1, s, j)
                    \/ one /\ RegexMatchFrom(prog, k + 1, s, nj)
               [] tok.quant = "*" ->
                    \/ RegexMatchFrom(prog, k + 1, s, j)
                    \/ one /\ nj > j /\ RegexMatchFrom(prog, k, s, nj)
               [] OTHER ->  \* "+"
                    one /\ \/ RegexMatchFrom(prog, k + 1, s, nj)
                           \/ nj > j /\ RegexMatchFrom(prog, k, s, nj)

\* re.MatchString: an unanchored search for a match starting anywhere
RegexMatchString(prog, s) ==
    \E j \in 1..(Len(s) + 1) : RegexMatchFrom(prog, 1, s, j)

\* MatchesPattern(name, pattern)
MatchesPattern(name, pattern) ==
    IF pattern = <<"*">> THEN TRUE
    ELSE LET prog == RegexParse(GlobToRegex(pattern), 1)
         IN  IF ~RegexCompiles(prog) THEN FALSE
             ELSE RegexMatchString(prog, name)

-----------------------------------------------------------------------------
(* Scope filter: ShouldIncludeRepo *)

\* a range loop over patterns that returns at the first match
RECURSIVE FirstMatch(_, _)
FirstMatch(repoName, patterns) ==
    IF patterns = << >> THEN FALSE
    ELSE IF MatchesPattern(repoName, Head(patterns)) THEN TRUE
    ELSE FirstMatch(repoName, Tail(patterns))

\* a filter that looks at the include patterns first
ShouldIncludeRepoIncludeFirst(repoName, incl, excl) ==
    IF FirstMatch(repoName, incl) THEN TRUE
    ELSE FALSE

\* ShouldIncludeRepo(repoName, includePatterns, excludePatterns)
ShouldIncludeRepo(repoName, incl, excl) ==
    IF FirstMatch(repoName, excl) THEN FALSE
    ELSE IF FirstMatch(repoName, incl) THEN TRUE
    ELSE FALSE

-----------------------------------------------------------------------------
(* Upstream data *)

\* a nil pointer is the empty sequence, a pointer to v is <<v>>
Nil == << >>
Ptr(v) == <<v>>

Rule(approving, stale, codeOwner, status, signed, admin) ==
    [RequiresApprovingReviews |-> approving,
     DismissesStaleReviews    |-> stale,
     RequiresCodeOwnerReviews |-> codeOwner,
     RequiresStatusChecks     |-> status,
     RequiresCommitSignatures |-> signed,
     IsAdminEnforced          |-> admin]

\* what the upstream reports of a repository: no rule or a rule with every
\* flag set or with two flags set, with and without vulnerability alerts
FeatureSamples ==
    {[bp |-> Nil, alerts |-> FALSE],
     [bp |-> Nil, alerts |-> TRUE],
     [bp |-> Ptr(Rule(TRUE, TRUE, TRUE, TRUE, TRUE, TRUE)), alerts |-> FALSE],
     [bp |-> Ptr(Rule(FALSE, TRUE, FALSE, TRUE, FALSE, FALSE)), alerts |-> TRUE]}

\* repository identities the upstream returns
RepoIds ==
    {[owner |-> "acme", name |-> <<"a">>],
     [owner |-> "acme", name |-> <<"a", "b">>],
     [owner |-> "octo", name |-> <<"b">>]}

\* github.Repository
Repositories ==
    {[Name |-> id.name, Owner |-> id.owner, BranchProtectionRule |-> f.bp,
      HasVulnerabilityAlertsEnabled |-> f.alerts] :
        id \in RepoIds, f \in FeatureSamples}

\* github.SecuritySettings
SecuritySettings ==
    [SecretScanning : BOOLEAN, SecretScanningPushProtection : BOOLEAN,
     DependabotSecurityUpdates : BOOLEAN, CodeScanningEnabled : BOOLEAN]

AllFalseSettings ==
    [SecretScanning |-> FALSE, SecretScanningPushProtection |-> FALSE,
     DependabotSecurityUpdates |-> FALSE, CodeScanningEnabled |-> FALSE]

\* settings the upstream reports of a repository
SettingsSamples ==
    {AllFalseSettings,
     [SecretScanning |-> TRUE, SecretScanningPushProtection |-> TRUE,
      DependabotSecurityUpdates |-> TRUE, CodeScanningEnabled |-> TRUE],
     [SecretScanning |-> TRUE, SecretScanningPushProtection |-> FALSE,
      DependabotSecurityUpdates |-> FALSE, CodeScanningEnabled |-> TRUE]}

\* OrgSecurity.TwoFactorRequired, a *bool
TwoFactorValues == {"true", "false", "null"}

\* errors a client operation can return
ClientErrors == {"timeout", "forbidden"}

\* the include and exclude patterns a configuration can hold; a list that
\* the configuration does not name is a nil slice, a list it names without
\* an element is an empty one
ConfigChoices ==
    {[include |-> << >>, includeNil |-> TRUE,
      exclude |-> << >>, excludeNil |-> TRUE],
     [include |-> << <<"a", "*">> >>, includeNil |-> FALSE,
      exclude |-> << <<"*", "b">> >>, excludeNil |-> FALSE],
     [include |-> << <<"a", "?">>, <<"b">> >>, includeNil |-> FALSE,
      exclude |-> << >>, excludeNil |-> FALSE],
     [include |-> << >>, includeNil |-> FALSE,
      exclude |-> << <<"*", "b">> >>, excludeNil |-> FALSE]}

-----------------------------------------------------------------------------
(* Metrics aggregator *)

\* &metricsAggregator{}
NewMetrics ==
    [totalRepos |-> 0, excludedRepos |-> 0, repos |-> << >>,
     branchProtectionEnabled |-> 0, requirePullRequest |-> 0,
     requireApprovingReviews |-> 0, dismissStaleReviews |-> 0,
     requireCodeOwnerReviews |-> 0, requireStatusChecks |-> 0,
     requireSignedCommits |-> 0, enforceAdmins |-> 0,
     vulnerabilityAlertsEnabled |-> 0, codeScanningEnabled |-> 0,
     secretScanningEnabled |-> 0, secretScanningPushProtection |-> 0,
     dependabotSecurityUpdatesEnabled |-> 0]

BranchProtectionCounters ==
    {"requirePullRequest", "requireApprovingReviews", "dismissStaleReviews",
     "requireCodeOwnerReviews", "requireStatusChecks", "requireSignedCommits",
     "enforceAdmins"}

SecurityFeatureCounters ==
    {"vulnerabilityAlertsEnabled", "codeScanningEnabled",
     "secretScanningEnabled", "secretScanningPushProtection",
     "dependabotSecurityUpdatesEnabled"}

SettingsCounters == SecurityFeatureCounters \ {"vulnerabilityAlertsEnabled"}

Inc(b) == IF b THEN 1 ELSE 0

\* a countBranchProtection that takes every rule to require a pull request
countBranchProtectionPullRequestAlways(m, repo) ==
    LET bp == repo.BranchProtectionRule IN
    IF bp = Nil THEN m
    ELSE LET r == bp[1] IN
         [m EXCEPT
            !.branchProtectionEnabled = @ + 1,
            !.requirePullRequest      = @ + 1,
            !.requireApprovingReviews = @ + Inc(r.RequiresApprovingReviews),
            !.dismissStaleReviews     = @ + Inc(r.DismissesStaleReviews),
            !.requireCodeOwnerReviews = @ + Inc(r.RequiresCodeOwnerReviews),
            !.requireStatusChecks     = @ + Inc(r.RequiresStatusChecks),
            !.requireSignedCommits    = @ + Inc(r.RequiresCommitSignatures),
            !.enforceAdmins           = @ + Inc(r.IsAdminEnforced)]

\* a countBranchProtection that stores a flag where it should count it
countBranchProtectionStoring(m, repo) ==
    LET bp == repo.BranchProtectionRule IN
    IF bp = Nil THEN m
    ELSE LET r == bp[1] IN
         [m EXCEPT
            !.branchProtectionEnabled = @ + 1,
            !.requirePullRequest      = @ + Inc(r.RequiresApprovingReviews),
            !.requireApprovingReviews = @ + Inc(r.RequiresApprovingReviews),
            !.dismissStaleReviews     = @ + Inc(r.DismissesStaleReviews),
            !.requireCodeOwnerReviews = @ + Inc(r.RequiresCodeOwnerReviews),
            !.requireStatusChecks     = @ + Inc(r.RequiresStatusChecks),
            !.requireSignedCommits    = @ + Inc(r.RequiresCommitSignatures),
            !.enforceAdmins           = Inc(r.IsAdminEnforced)]

\* a countBranchProtection that counts a rule as protection only where it
\* is enforced for administrators
countBranchProtectionEnforcedOnly(m, repo) ==
    LET bp == repo.BranchProtectionRule IN
    IF bp = Nil THEN m
    ELSE LET r == bp[1] IN
         [m EXCEPT
            !.branchProtectionEnabled = @ + Inc(r.IsAdminEnforced),
            !.requirePullRequest      = @ + Inc(r.RequiresApprovingReviews),
            !.requireApprovingReviews = @ + Inc(r.RequiresApprovingReviews),
            !.dismissStaleReviews     = @ + Inc(r.DismissesStaleReviews),
            !.requireCodeOwnerReviews = @ + Inc(r.RequiresCodeOwnerReviews),
            !.requireStatusChecks     = @ + Inc(r.RequiresStatusChecks),
            !.requireSignedCommits    = @ + Inc(r.RequiresCommitSignatures),
            !.enforceAdmins           = @ + Inc(r.IsAdminEnforced)]

\* countBranchProtection(repo)
countBranchProtection(m, repo) ==
    LET bp == repo.BranchProtectionRule IN
    IF bp = Nil THEN m
    ELSE LET r == bp[1] IN
         [m EXCEPT
            !.branchProtectionEnabled = @ + 1,
            !.requirePullRequest      = @ + Inc(r.RequiresApprovingReviews),
            !.requireApprovingReviews = @ + Inc(r.RequiresApprovingReviews),
            !.dismissStaleReviews     = @ + Inc(r.DismissesStaleReviews),
            !.requireCodeOwnerReviews = @ + Inc(r.RequiresCodeOwnerReviews),
            !.requireStatusChecks     = @ + Inc(r.RequiresStatusChecks),
            !.requireSignedCommits    = @ + Inc(r.RequiresCommitSignatures),
            !.enforceAdmins           = @ + Inc(r.IsAdminEnforced)]

\* a processRepository that counts the features of an excluded repository
processRepositoryCountsExcluded(m, repo, incl, excl) ==
    IF ~ShouldIncludeRepo(repo.Name, incl, excl)
    THEN countBranchProtection([m EXCEPT !.excludedRepos = @ + 1], repo)
    ELSE LET counted == [m EXCEPT
                 !.totalRepos = @ + 1,
                 !.repos = Append(@, [owner |-> repo.Owner,
                                      name |-> repo.Name])]
             protected == countBranchProtection(counted, repo)
         IN  [protected EXCEPT !.vulnerabilityAlertsEnabled =
                                 @ + Inc(repo.HasVulnerabilityAlertsEnabled)]

\* a processRepository that forgets to count an excluded repository
processRepositoryDropsExcluded(m, repo, incl, excl) ==
    IF ~ShouldIncludeRepo(repo.Name, incl, excl)
    THEN m
    ELSE LET counted == [m EXCEPT
                 !.totalRepos = @ + 1,
                 !.repos = Append(@, [owner |-> repo.Owner,
                                      name |-> repo.Name])]
             protected == countBranchProtection(counted, repo)
         IN  [protected EXCEPT !.vulnerabilityAlertsEnabled =
                                 @ + Inc(repo.HasVulnerabilityAlertsEnabled)]

\* a processRepository that takes the alerts of every included repository to
\* be enabled
processRepositoryAlertsAlways(m, repo, incl, excl) ==
    IF ~ShouldIncludeRepo(repo.Name, incl, excl)
    THEN [m EXCEPT !.excludedRepos = @ + 1]
    ELSE LET counted == [m EXCEPT
                 !.totalRepos = @ + 1,
                 !.repos = Append(@, [owner |-> repo.Owner,
                                      name |-> repo.Name])]
             protected == countBranchProtection(counted, repo)
         IN  [protected EXCEPT !.vulnerabilityAlertsEnabled = @ + 1]

\* a processRepository that lists an excluded repository among those whose
\* settings are fetched
processRepositoryListsExcluded(m, repo, incl, excl) ==
    IF ~ShouldIncludeRepo(repo.Name, incl, excl)
    THEN [m EXCEPT !.excludedRepos = @ + 1,
                   !.repos = Append(@, [owner |-> repo.Owner,
                                        name |-> repo.Name])]
    ELSE LET counted == [m EXCEPT
                 !.totalRepos = @ + 1,
                 !.repos = Append(@, [owner |-> repo.Owner,
                                      name |-> repo.Name])]
             protected == countBranchProtection(counted, repo)
         IN  [protected EXCEPT !.vulnerabilityAlertsEnabled =
                                 @ + Inc(repo.HasVulnerabilityAlertsEnabled)]

\* processRepository(repo, includePatterns, excludePatterns)
processRepository(m, repo, incl, excl) ==
    IF ~ShouldIncludeRepo(repo.Name, incl, excl)
    THEN [m EXCEPT !.excludedRepos = @ + 1]
    ELSE LET counted == [m EXCEPT
                 !.totalRepos = @ + 1,
                 !.repos = Append(@, [owner |-> repo.Owner,
                                      name |-> repo.Name])]
             protected == countBranchProtection(counted, repo)
         IN  [protected EXCEPT !.vulnerabilityAlertsEnabled =
                                 @ + Inc(repo.HasVulnerabilityAlertsEnabled)]

\* a countSecuritySettings that counts push protection only where secret
\* scanning is enabled too
countSecuritySettingsNested(m, settings) ==
    [m EXCEPT
       !.codeScanningEnabled   = @ + Inc(settings.CodeScanningEnabled),
       !.secretScanningEnabled = @ + Inc(settings.SecretScanning),
       !.secretScanningPushProtection =
            @ + Inc(settings.SecretScanning
                      /\ settings.SecretScanningPushProtection),
       !.dependabotSecurityUpdatesEnabled =
            @ + Inc(settings.DependabotSecurityUpdates)]

\* countSecuritySettings(settings)
countSecuritySettings(m, settings) ==
    [m EXCEPT
       !.codeScanningEnabled   = @ + Inc(settings.CodeScanningEnabled),
       !.secretScanningEnabled = @ + Inc(settings.SecretScanning),
       !.secretScanningPushProtection =
            @ + Inc(settings.SecretScanningPushProtection),
       !.dependabotSecurityUpdatesEnabled =
            @ + Inc(settings.DependabotSecurityUpdates)]

-----------------------------------------------------------------------------
(* Posture calculator *)

\* the quotient of two ints: truncated toward zero
Quo(a, b) ==
    LET Abs(x) == IF x < 0 THEN -x ELSE x
        q == Abs(a) \div Abs(b)
    IN  IF (a < 0) = (b < 0) THEN q ELSE -q

\* a percent that rounds to the nearest integer
percentRounded(count, total) ==
    IF total = 0 THEN 0
    ELSE Quo(count * MaxPercentage + Quo(total, 2), total)

\* percent(count, total)
percent(count, total) ==
    IF total = 0 THEN 0
    ELSE Quo(count * MaxPercentage, total)

\* a coverage that forgets to divide by the number of features
securityFeaturesCoverageUnaveraged(m) ==
    IF m.totalRepos = 0 THEN 0
    ELSE LET total == m.vulnerabilityAlertsEnabled + m.codeScanningEnabled
                        + m.secretScanningEnabled
                        + m.secretScanningPushProtection
                        + m.dependabotSecurityUpdatesEnabled
         IN  (total * MaxPercentage) \div m.totalRepos

\* a coverage that averages the five percentages
securityFeaturesCoverageOfPercents(m) ==
    Quo(percent(m.vulnerabilityAlertsEnabled, m.totalRepos)
            + percent(m.codeScanningEnabled, m.totalRepos)
            + percent(m.secretScanningEnabled, m.totalRepos)
            + percent(m.secretScanningPushProtection, m.totalRepos)
            + percent(m.dependabotSecurityUpdatesEnabled, m.totalRepos),
        NumSecurityFeatures)

\* a coverage that rounds up
securityFeaturesCoverageRoundedUp(m) ==
    IF m.totalRepos = 0 THEN 0
    ELSE LET total == m.vulnerabilityAlertsEnabled + m.codeScanningEnabled
                        + m.secretScanningEnabled
                        + m.secretScanningPushProtection
                        + m.dependabotSecurityUpdatesEnabled
             divisor == m.totalRepos * NumSecurityFeatures
         IN  Quo(total * MaxPercentage + divisor - 1, divisor)

\* securityFeaturesCoverage()
securityFeaturesCoverage(m) ==
    IF m.totalRepos = 0 THEN 0
    ELSE LET total == m.vulnerabilityAlertsEnabled + m.codeScanningEnabled
                        + m.secretScanningEnabled
                        + m.secretScanningPushProtection
                        + m.dependabotSecurityUpdatesEnabled
         IN  Quo(total * MaxPercentage, m.totalRepos * NumSecurityFeatures)

\* toBranchProtectionRules()
toBranchProtectionRules(m) ==
    [pull_request_required |-> percent(m.requirePullRequest, m.totalRepos),
     approving_reviews     |-> percent(m.requireApprovingReviews, m.totalRepos),
     dismiss_stale_reviews |-> percent(m.dismissStaleReviews, m.totalRepos),
     code_owner_reviews    |-> percent(m.requireCodeOwnerReviews, m.totalRepos),
     status_checks         |-> percent(m.requireStatusChecks, m.totalRepos),
     signed_commits        |-> percent(m.requireSignedCommits, m.totalRepos),
     admin_enforcement     |-> percent(m.enforceAdmins, m.totalRepos)]

\* security features measured against every repository of the organization
toSecurityFeaturesOfOrganization(m) ==
    LET all == m.totalRepos + m.excludedRepos IN
    [vulnerability_alerts |-> percent(m.vulnerabilityAlertsEnabled, all),
     code_scanning        |-> percent(m.codeScanningEnabled, all),
     secret_scanning      |-> percent(m.secretScanningEnabled, all),
     secret_scanning_push_protection |->
         percent(m.secretScanningPushProtection, all),
     dependabot_security_updates |->
         percent(m.dependabotSecurityUpdatesEnabled, all)]

\* toSecurityFeatures()
toSecurityFeatures(m) ==
    [vulnerability_alerts |-> percent(m.vulnerabilityAlertsEnabled, m.totalRepos),
     code_scanning        |-> percent(m.codeScanningEnabled, m.totalRepos),
     secret_scanning      |-> percent(m.secretScanningEnabled, m.totalRepos),
     secret_scanning_push_protection |->
         percent(m.secretScanningPushProtection, m.totalRepos),
     dependabot_security_updates |->
         percent(m.dependabotSecurityUpdatesEnabled, m.totalRepos)]

\* a []string: nil, or a list of elements
Slice(isNil, items) == [null |-> isNil, items |-> items]

\* Collect's local includePatterns as a slice: it is nil when it still is the
\* configured list and that list is nil
LocalInclude(incl) == Slice(cfgNil.include /\ incl = cfgInclude, incl)

\* an access control that reports an unknown two-factor requirement as false
toAccessControlCoercing(orgSec) ==
    [two_factor_required |-> IF orgSec = "null" THEN "false" ELSE orgSec]

\* AccessControl{TwoFactorRequired: orgSecurity.TwoFactorRequired}
toAccessControl(orgSec) == [two_factor_required |-> orgSec]

\* NewOrgPosture followed by populatePosture: the report Collect returns.
\* CollectedAt is the wall clock at the start of the run and is left out.
populatePosture(org, excl, orgSec, m, incl) ==
    LET totalOrgRepos == m.totalRepos + m.excludedRepos
        configured == Slice(cfgNil.exclude, excl)
        excludePatterns == IF configured.null THEN Slice(FALSE, << >>)
                                              ELSE configured
    IN
    [schema_version |-> "1.0.0",
     organization   |-> org,
     scope |-> [include_patterns |-> LocalInclude(incl),
                exclude_patterns |-> excludePatterns,
                repositories_coverage |-> percent(m.totalRepos, totalOrgRepos)],
     posture |-> [branch_protection_coverage |->
                      percent(m.branchProtectionEnabled, m.totalRepos),
                  security_features_coverage |-> securityFeaturesCoverage(m)],
     access_control |-> toAccessControl(orgSec),
     branch_protection_rules |-> toBranchProtectionRules(m),
     security_features |-> toSecurityFeatures(m)]

-----------------------------------------------------------------------------
(* Collect: the orchestration.  Every client call is a point where Collect *)
(* waits; an action is the return of one client call (or of one page       *)
(* callback) together with everything Collect does up to the next call.    *)
(* A step is written once, with the answer of the client as its parameter: *)
(* the actions below draw the answer from the upstream samples.            *)

\* an entry of the history
Ev(op, owner, name, result) ==
    [op |-> op, owner |-> owner, name |-> name, result |-> result]

EvPopulate == Ev("populatePosture", "", << >>, "ok")

\* an invocation of OnStatus or of OnProgress
Note(kind, message, org, name, current, total) ==
    [kind |-> kind, message |-> message, org |-> org, name |-> name,
     current |-> current, total |-> total]

\* c.status(message): OnStatus is invoked unless it is nil
status(n, message, org, count) ==
    IF callbacks # "nil"
    THEN Append(n, Note("status", message, org, << >>, count, 0))
    ELSE n

\* a progress that reports the index of the range loop
progressOfIndex(n, current, total, name) ==
    IF callbacks # "nil"
    THEN Append(n, Note("progress", "Checking security settings for %s", "",
                        name, current - 1, total))
    ELSE n

\* c.progress(current, total, message): OnProgress is invoked unless it is nil
progress(n, current, total, name) ==
    IF callbacks # "nil"
    THEN Append(n, Note("progress", "Checking security settings for %s", "",
                        name, current, total))
    ELSE n

\* the callback given to FetchRepositories: processRepository on each element
RECURSIVE ProcessPage(_, _, _, _)
ProcessPage(m, page, incl, excl) ==
    IF page = << >> THEN m
    ELSE ProcessPage(processRepository(m, Head(page), incl, excl),
                     Tail(page), incl, excl)

PageEvents(page) ==
    [i \in 1..Len(page) |->
        Ev("processRepository", page[i].Owner, page[i].Name, "ok")]

NumEvents(c, op) == Cardinality({i \in 1..Len(c) : c[i].op = op})

AllPages == SeqsUpTo(Repositories, MaxPageLen)

\* a Collect that starts without an organization
OrganizationMissingIgnored(org) == FALSE

\* c.config.Organization == ""
OrganizationMissing(org) == org = ""

\* a default that is taken for a nil list only
DefaultedIncludeOfNil(configured) ==
    IF cfgNil.include THEN <<DefaultIncludePattern>> ELSE configured

\* includePatterns := c.config.IncludePatterns, replaced by the default
\* pattern when it has no element
DefaultedInclude(configured) ==
    IF Len(configured) = 0 THEN <<DefaultIncludePattern>> ELSE configured

\* a settings loop that is skipped
SettingsLoopDoneSkipped(m, i) == TRUE

\* a settings loop that is left when there is no OnProgress to report to
SettingsLoopDoneUnreported(m, i) == callbacks = "nil" \/ i > Len(m.repos)

\* the range loop of fetchSecuritySettings has no element left
SettingsLoopDone(m, i) == i > Len(m.repos)

\* the loop of fetchSecuritySettings at position i with history c and
\* callback history n, and, once the loop is over, populatePosture and the
\* return of the report
Proceed(m, i, c, n) ==
    /\ idx' = i
    /\ err' = Nil
    /\ IF ~SettingsLoopDone(m, i)
       THEN /\ pc' = "FetchSecuritySettings"
            /\ posture' = Nil
            /\ calls' = c
            /\ notes' = progress(n, i, Len(m.repos), m.repos[i].name)
       ELSE /\ pc' = "returned"
            /\ posture' = Ptr(populatePosture(organization, cfgExclude,
                                              orgSecurity, m,
                                              includePatterns))
            /\ calls' = Append(c, EvPopulate)
            /\ notes' = status(n, "Collection complete", "", 0)

\* return nil, err
ReturnError(e, c) ==
    /\ pc' = "returned"
    /\ posture' = Nil
    /\ err' = e
    /\ calls' = c
    /\ notes' = notes

\* no second Collect call, and no upstream fixed in advance
ReplayIdle ==
    /\ run = 1
    /\ settingsOf = << >>
    /\ tape = << >>
    /\ plan = << >>
    /\ first = << >>

\* no aggregator and no FetchRepositories of the client under study
ClientIdle ==
    /\ aggMetrics = NewMetrics
    /\ aggBefore = NewMetrics
    /\ aggOp = << >>
    /\ aggFetched = 0
    /\ clPc = "off"
    /\ cursor = Nil
    /\ query = << >>
    /\ clErr = Nil
    /\ clLog = << >>

\* no pure function under study
FnIdle ==
    /\ fnName = << >>
    /\ fnPattern = << >>
    /\ fnResult = "unset"
    /\ fnCount = 0
    /\ fnTotal = 0
    /\ fnMetrics = NewMetrics
    /\ fnRest = << >>
    /\ fnValue = Nil
    /\ ClientIdle

Init ==
    /\ pc = "init"
    /\ organization \in {"", "acme"}
    /\ \E cfg \in ConfigChoices :
          /\ cfgInclude = cfg.include
          /\ cfgExclude = cfg.exclude
          /\ cfgNil = [include |-> cfg.includeNil, exclude |-> cfg.excludeNil]
    /\ callbacks = "nil"
    /\ ctxDone = FALSE
    /\ includePatterns = << >>
    /\ orgSecurity = "null"
    /\ metrics = NewMetrics
    /\ shadow = NewMetrics
    /\ hasNextPage = TRUE
    /\ idx = 1
    /\ posture = Nil
    /\ err = Nil
    /\ calls = << >>
    /\ notes = << >>
    /\ ReplayIdle
    /\ FnIdle

\* Collect up to the FetchOrgSecurity call
CollectStartStep ==
    /\ pc = "init"
    /\ IF OrganizationMissing(organization)
       THEN /\ ReturnError(<<"organization is required">>, calls)
            /\ UNCHANGED includePatterns
       ELSE /\ includePatterns' = DefaultedInclude(cfgInclude)
            /\ pc' = "FetchOrgSecurity"
            /\ notes' = status(notes, "Connecting to GitHub org %s...",
                               organization, 0)
            /\ UNCHANGED <<posture, err, calls>>
    /\ UNCHANGED <<configVars, orgSecurity, metrics, shadow, hasNextPage, idx>>

\* a Collect that keeps one aggregator for all its calls
FetchOrgSecurityReturnsStepReusing(v) ==
    /\ pc = "FetchOrgSecurity"
    /\ orgSecurity' = v
    /\ metrics' = metrics
    /\ shadow' = metrics
    /\ hasNextPage' = TRUE
    /\ pc' = "FetchRepositories"
    /\ calls' = calls \o <<Ev("FetchOrgSecurity", organization, << >>, "ok"),
                           Ev("FetchRepositories", organization, << >>, "ok")>>
    /\ notes' = status(notes, "Fetching repositories...", "", 0)
    /\ UNCHANGED <<configVars, includePatterns, idx, posture, err>>

\* FetchOrgSecurity returns the value v; Collect takes a new aggregator and
\* calls FetchRepositories
FetchOrgSecurityReturnsStep(v) ==
    /\ pc = "FetchOrgSecurity"
    /\ orgSecurity' = v
    /\ metrics' = NewMetrics
    /\ shadow' = NewMetrics
    /\ hasNextPage' = TRUE
    /\ pc' = "FetchRepositories"
    /\ calls' = calls \o <<Ev("FetchOrgSecurity", organization, << >>, "ok"),
                           Ev("FetchRepositories", organization, << >>, "ok")>>
    /\ notes' = status(notes, "Fetching repositories...", "", 0)
    /\ UNCHANGED <<configVars, includePatterns, idx, posture, err>>

\* FetchOrgSecurity returns the error e
FetchOrgSecurityFailsStep(e) ==
    /\ pc = "FetchOrgSecurity"
    /\ ReturnError(<<"failed to fetch org security: ", e>>,
                   Append(calls, Ev("FetchOrgSecurity", organization, << >>, e)))
    /\ UNCHANGED <<configVars, includePatterns, orgSecurity, metrics, shadow,
                   hasNextPage, idx>>

\* FetchRepositories delivers a page to the callback, whatever the page
\* holds; after the last page it returns nil and Collect goes on to
\* fetchSecuritySettings
FetchRepositoriesAnyPageStep(page, next) ==
    /\ pc = "FetchRepositories"
    /\ LET m == ProcessPage(metrics, page, includePatterns, cfgExclude)
           c == calls \o PageEvents(page)
           n == status(notes, "Found %d repositories...", "",
                       NumEvents(c, "processRepository"))
       IN  /\ metrics' = m
           /\ shadow' = m
           /\ hasNextPage' = next
           /\ IF next
              THEN /\ calls' = c
                   /\ notes' = n
                   /\ UNCHANGED <<pc, idx, posture, err>>
              ELSE Proceed(m, 1, Append(c, Ev("FetchRepositoriesReturn",
                                              organization, << >>, "ok")), n)
    /\ UNCHANGED <<configVars, includePatterns, orgSecurity>>

\* FetchRepositories delivers one page to the callback; after the last page
\* it returns nil and Collect goes on to fetchSecuritySettings.  A page is
\* empty only when the organization has no repository at all.
FetchRepositoriesPageStep(page, next) ==
    /\ pc = "FetchRepositories"
    /\ NumEvents(calls, "processRepository") + Len(page) <= MaxRepos
    /\ page = << >> => (~next /\ NumEvents(calls, "processRepository") = 0)
    /\ FetchRepositoriesAnyPageStep(page, next)

\* a query of FetchRepositories fails: FetchRepositories returns the error e
FetchRepositoriesFailsStep(e) ==
    /\ pc = "FetchRepositories"
    /\ ReturnError(<<"failed to fetch repositories: ", e>>,
                   Append(calls, Ev("FetchRepositoriesReturn",
                                    organization, << >>, e)))
    /\ UNCHANGED <<configVars, includePatterns, orgSecurity, metrics, shadow,
                   hasNextPage, idx>>

\* FetchSecuritySettings returns the settings of metrics.repos[idx]
FetchSecuritySettingsReturnsStep(settings) ==
    /\ pc = "FetchSecuritySettings"
    /\ LET repo == metrics.repos[idx]
           m == countSecuritySettings(metrics, settings)
       IN  /\ metrics' = m
           /\ shadow' = countSecuritySettings(shadow, settings)
           /\ Proceed(m, idx + 1,
                      Append(calls, Ev("FetchSecuritySettings", repo.owner,
                                       repo.name, "ok")), notes)
    /\ UNCHANGED <<configVars, includePatterns, orgSecurity, hasNextPage>>

\* a failed FetchSecuritySettings that is tried again for the same
\* repository
FetchSecuritySettingsFailsStepRetrying(e) ==
    /\ pc = "FetchSecuritySettings"
    /\ UNCHANGED collectVars

\* FetchSecuritySettings of metrics.repos[idx] fails with e: continue
FetchSecuritySettingsFailsStep(e) ==
    /\ pc = "FetchSecuritySettings"
    /\ LET repo == metrics.repos[idx]
       IN  /\ shadow' = countSecuritySettings(shadow, AllFalseSettings)
           /\ Proceed(metrics, idx + 1,
                      Append(calls, Ev("FetchSecuritySettings", repo.owner,
                                       repo.name, e)), notes)
    /\ UNCHANGED <<configVars, includePatterns, orgSecurity, metrics,
                   hasNextPage>>

CollectStart == CollectStartStep /\ UNCHANGED restVars

FetchOrgSecurityReturns ==
    /\ pc = "FetchOrgSecurity"
    /\ \E v \in TwoFactorValues : FetchOrgSecurityReturnsStep(v)
    /\ UNCHANGED restVars

\* a Collect that goes on after FetchOrgSecurity failed
FetchOrgSecurityFailsIgnored ==
    /\ pc = "FetchOrgSecurity"
    /\ \E e \in ClientErrors :
          /\ orgSecurity' = "null"
          /\ metrics' = NewMetrics
          /\ shadow' = NewMetrics
          /\ hasNextPage' = TRUE
          /\ pc' = "FetchRepositories"
          /\ calls' = calls \o <<Ev("FetchOrgSecurity", organization, << >>, e),
                                 Ev("FetchRepositories", organization, << >>, "ok")>>
    /\ UNCHANGED <<configVars, includePatterns, idx, posture, err, notes,
                   restVars>>

FetchOrgSecurityFails ==
    /\ pc = "FetchOrgSecurity"
    /\ \E e \in ClientErrors : FetchOrgSecurityFailsStep(e)
    /\ UNCHANGED restVars

FetchRepositoriesPage ==
    /\ pc = "FetchRepositories"
    /\ \E page \in AllPages, next \in BOOLEAN :
          FetchRepositoriesPageStep(page, next)
    /\ UNCHANGED restVars

\* a Collect that reports what it has when the enumeration fails
FetchRepositoriesFailsPartial ==
    /\ pc = "FetchRepositories"
    /\ \E e \in ClientErrors :
          Proceed(metrics, 1, Append(calls, Ev("FetchRepositoriesReturn",
                                               organization, << >>, e)), notes)
    /\ UNCHANGED <<configVars, includePatterns, orgSecurity, metrics, shadow,
                   hasNextPage, restVars>>

FetchRepositoriesFails ==
    /\ pc = "FetchRepositories"
    /\ \E e \in ClientErrors : FetchRepositoriesFailsStep(e)
    /\ UNCHANGED restVars

FetchSecuritySettingsReturns ==
    /\ pc = "FetchSecuritySettings"
    /\ \E settings \in SettingsSamples :
          FetchSecuritySettingsReturnsStep(settings)
    /\ UNCHANGED restVars

\* a fetchSecuritySettings that leaves the loop at the first failure
FetchSecuritySettingsFailsBreaks ==
    /\ pc = "FetchSecuritySettings"
    /\ \E e \in ClientErrors :
          LET repo == metrics.repos[idx]
          IN  /\ shadow' = countSecuritySettings(shadow, AllFalseSettings)
              /\ Proceed(metrics, Len(metrics.repos) + 1,
                         Append(calls, Ev("FetchSecuritySettings", repo.owner,
                                          repo.name, e)), notes)
    /\ UNCHANGED <<configVars, includePatterns, orgSecurity, metrics,
                   hasNextPage, restVars>>

\* a fetchSecuritySettings that tries a failed fetch again
FetchSecuritySettingsFailsRetries ==
    /\ pc = "FetchSecuritySettings"
    /\ \E e \in ClientErrors :
          LET repo == metrics.repos[idx]
          IN  /\ shadow' = countSecuritySettings(shadow, AllFalseSettings)
              /\ Proceed(metrics, idx,
                         Append(calls, Ev("FetchSecuritySettings", repo.owner,
                                          repo.name, e)), notes)
    /\ UNCHANGED <<configVars, includePatterns, orgSecurity, metrics,
                   hasNextPage, restVars>>

FetchSecuritySettingsFails ==
    /\ pc = "FetchSecuritySettings"
    /\ \E e \in ClientErrors : FetchSecuritySettingsFailsStep(e)
    /\ UNCHANGED restVars

Next ==
    \/ CollectStart
    \/ FetchOrgSecurityReturns
    \/ FetchOrgSecurityFails
    \/ FetchRepositoriesPage
    \/ FetchRepositoriesFails
    \/ FetchSecuritySettingsReturns
    \/ FetchSecuritySettingsFails

Spec == Init /\ [][Next]_vars

-----------------------------------------------------------------------------
(* The pattern matcher on its own: MatchesPattern applied to one name and  *)
(* one pattern.                                                            *)

CoreAlphabet == {"a", "b", "*", "?"}

FullAlphabet == CoreAlphabet \cup RegexSpecialChars \cup {"\n"}

\* every string over the core alphabet up to MaxLen, and every string of one
\* or two characters over the full alphabet
MatchInputs ==
    SeqsUpTo(CoreAlphabet, MaxLen)
        \cup {<<c>> : c \in FullAlphabet}
        \cup {<<c, d>> : c \in FullAlphabet, d \in FullAlphabet}

CollectIdle ==
    /\ pc = "off"
    /\ organization = ""
    /\ cfgNil = [include |-> FALSE, exclude |-> FALSE]
    /\ callbacks = "nil"
    /\ ctxDone = FALSE
    /\ notes = << >>
    /\ includePatterns = << >>
    /\ orgSecurity = "null"
    /\ metrics = NewMetrics
    /\ shadow = NewMetrics
    /\ hasNextPage = FALSE
    /\ idx = 1
    /\ posture = Nil
    /\ err = Nil
    /\ calls = << >>

InitMatch ==
    /\ CollectIdle
    /\ cfgInclude = << >>
    /\ cfgExclude = << >>
    /\ ReplayIdle
    /\ ClientIdle
    /\ fnRest = << >>
    /\ fnName \in MatchInputs
    /\ fnPattern \in MatchInputs
    /\ fnResult = "unset"
    /\ fnCount = 0
    /\ fnTotal = 0
    /\ fnMetrics = NewMetrics
    /\ fnValue = Nil

ApplyMatchesPattern ==
    /\ fnResult = "unset"
    /\ fnResult' = IF MatchesPattern(fnName, fnPattern) THEN "true" ELSE "false"
    /\ UNCHANGED <<collectVars, replayVars, aggVars, clientVars, fnRest,
                   fnName, fnPattern, fnCount,
                   fnTotal, fnMetrics, fnValue>>

NextMatch == ApplyMatchesPattern

SpecMatch == InitMatch /\ [][NextMatch]_vars

-----------------------------------------------------------------------------
(* The scope filter on its own: ShouldIncludeRepo applied to one name and  *)
(* two pattern lists.                                                      *)

\* longest include list and longest exclude list
MaxPatterns == 2

FilterPatterns == {<<"*">>, <<"a", "*">>, <<"*", "b">>, <<"a", "?">>}

FilterNames == SeqsUpTo({"a", "b"}, 2)

InitFilter ==
    /\ CollectIdle
    /\ cfgInclude \in SeqsUpTo(FilterPatterns, MaxPatterns)
    /\ cfgExclude \in SeqsUpTo(FilterPatterns, MaxPatterns)
    /\ ReplayIdle
    /\ ClientIdle
    /\ fnRest = << >>
    /\ fnName \in FilterNames
    /\ fnPattern = << >>
    /\ fnResult = "unset"
    /\ fnCount = 0
    /\ fnTotal = 0
    /\ fnMetrics = NewMetrics
    /\ fnValue = Nil

ApplyShouldIncludeRepo ==
    /\ fnResult = "unset"
    /\ fnResult' = IF ShouldIncludeRepo(fnName, cfgInclude, cfgExclude)
                   THEN "true" ELSE "false"
    /\ UNCHANGED <<collectVars, replayVars, aggVars, clientVars, fnRest,
                   fnName, fnPattern, fnCount,
                   fnTotal, fnMetrics, fnValue>>

NextFilter == ApplyShouldIncludeRepo

SpecFilter == InitFilter /\ [][NextFilter]_vars

-----------------------------------------------------------------------------
(* The percentage on its own: percent applied to two counts.               *)

\* largest count and largest total given to percent
MaxCount == 10

InitPercent ==
    /\ CollectIdle
    /\ cfgInclude = << >>
    /\ cfgExclude = << >>
    /\ ReplayIdle
    /\ ClientIdle
    /\ fnRest = << >>
    /\ fnName = << >>
    /\ fnPattern = << >>
    /\ fnResult = "unset"
    /\ fnCount \in 0..MaxCount
    /\ fnTotal \in 0..MaxCount
    /\ fnMetrics = NewMetrics
    /\ fnValue = Nil

ApplyPercent ==
    /\ fnValue = Nil
    /\ fnValue' = Ptr(percent(fnCount, fnTotal))
    /\ UNCHANGED <<collectVars, replayVars, aggVars, clientVars, fnRest,
                   fnName, fnPattern, fnResult,
                   fnCount, fnTotal, fnMetrics>>

NextPercent == ApplyPercent

SpecPercent == InitPercent /\ [][NextPercent]_vars

-----------------------------------------------------------------------------
(* The security features coverage on its own: the field of the report that *)
(* populatePosture fills from the counters of one aggregator.              *)

\* most repositories the aggregator has counted
MaxIncluded == 3

\* the aggregators with t repositories counted and each security feature
\* counted for at most t of them
CoverageMetrics ==
    {[NewMetrics EXCEPT !.totalRepos = t,
                        !.vulnerabilityAlertsEnabled = c[1],
                        !.codeScanningEnabled = c[2],
                        !.secretScanningEnabled = c[3],
                        !.secretScanningPushProtection = c[4],
                        !.dependabotSecurityUpdatesEnabled = c[5]] :
        t \in 0..MaxIncluded, c \in [1..NumSecurityFeatures -> 0..MaxIncluded]}

InitCoverage ==
    /\ CollectIdle
    /\ cfgInclude = << >>
    /\ cfgExclude = << >>
    /\ ReplayIdle
    /\ ClientIdle
    /\ fnRest = << >>
    /\ fnName = << >>
    /\ fnPattern = << >>
    /\ fnResult = "unset"
    /\ fnCount = 0
    /\ fnTotal = 0
    /\ fnMetrics \in {m \in CoverageMetrics :
                          \A k \in SecurityFeatureCounters :
                              m[k] <= m.totalRepos}
    /\ fnValue = Nil

ApplySecurityFeaturesCoverage ==
    /\ fnValue = Nil
    /\ fnValue' = Ptr(populatePosture(organization, cfgExclude, orgSecurity,
                                      fnMetrics, includePatterns)
                          .posture.security_features_coverage)
    /\ UNCHANGED <<collectVars, replayVars, aggVars, clientVars, fnRest,
                   fnName, fnPattern, fnResult,
                   fnCount, fnTotal, fnMetrics>>

NextCoverage == ApplySecurityFeaturesCoverage

SpecCoverage == InitCoverage /\ [][NextCoverage]_vars

-----------------------------------------------------------------------------
(* Two Collect calls against one upstream.  The upstream holds one record  *)
(* and one settings answer for each repository; the first call is answered *)
(* freely and what it was answered is kept; the second call is answered    *)
(* the same, with the repositories of a successful enumeration delivered   *)
(* in any order and in any pages.                                          *)

\* the record the upstream holds of each repository
ReplayRepositories ==
    {r \in Repositories :
        \/ /\ r.Name = <<"a">>
           /\ r.BranchProtectionRule
                 = Ptr(Rule(TRUE, TRUE, TRUE, TRUE, TRUE, TRUE))
           /\ ~r.HasVulnerabilityAlertsEnabled
        \/ /\ r.Name = <<"a", "b">>
           /\ r.BranchProtectionRule
                 = Ptr(Rule(FALSE, TRUE, FALSE, TRUE, FALSE, FALSE))
           /\ r.HasVulnerabilityAlertsEnabled
        \/ /\ r.Name = <<"b">>
           /\ r.BranchProtectionRule = Nil
           /\ r.HasVulnerabilityAlertsEnabled}

\* an answer of FetchSecuritySettings: settings, or an error
SettingsReply(e, settings) == [err |-> e, settings |-> settings]

\* an answer of FetchOrgSecurity: a value, or an error
OrgReply(e, v) == [err |-> e, value |-> v]

OrgReplies == {OrgReply("", "null"), OrgReply("forbidden", "null")}

\* the settings answers the upstream holds, by repository
ReplaySettings ==
    LET allTrue == [SecretScanning |-> TRUE,
                    SecretScanningPushProtection |-> TRUE,
                    DependabotSecurityUpdates |-> TRUE,
                    CodeScanningEnabled |-> TRUE]
        mixed   == [SecretScanning |-> TRUE,
                    SecretScanningPushProtection |-> FALSE,
                    DependabotSecurityUpdates |-> FALSE,
                    CodeScanningEnabled |-> TRUE]
        Answers(a, ab, b) ==
            [id \in RepoIds |->
                IF id.name = <<"a">> THEN a
                ELSE IF id.name = <<"a", "b">> THEN ab ELSE b]
    IN  {Answers(SettingsReply("", allTrue),
                 SettingsReply("timeout", AllFalseSettings),
                 SettingsReply("", mixed)),
         Answers(SettingsReply("timeout", AllFalseSettings),
                 SettingsReply("", mixed),
                 SettingsReply("", AllFalseSettings))}

\* the zero configuration and one that names both lists
ReplayConfigs ==
    {cfg \in ConfigChoices : Len(cfg.include) = Len(cfg.exclude)}

\* the ways to cut a sequence into pages of at least one element
RECURSIVE Partitions(_)
Partitions(seq) ==
    IF seq = << >> THEN {<< >>}
    ELSE UNION {{<<SubSeq(seq, 1, k)>> \o rest :
                    rest \in Partitions(SubSeq(seq, k + 1, Len(seq)))} :
                k \in 1..(IF Len(seq) < MaxPageLen THEN Len(seq)
                                                   ELSE MaxPageLen)}

\* the orders a sequence can be put in
Reorderings(seq) ==
    {[i \in 1..Len(seq) |-> seq[f[i]]] : f \in Permutations(1..Len(seq))}

\* the pages the second call can be delivered: after an enumeration that
\* failed, the same repositories in the same order; after one that
\* succeeded, the same repositories in any order; an organization without
\* a repository delivers one empty page
Plans ==
    IF tape.err # "" THEN Partitions(tape.repos)
    ELSE IF tape.repos = << >> THEN {<< << >> >>}
    ELSE UNION {Partitions(seq) : seq \in Reorderings(tape.repos)}

InitReplay ==
    /\ pc = "init"
    /\ organization = "acme"
    /\ \E cfg \in ReplayConfigs :
          /\ cfgInclude = cfg.include
          /\ cfgExclude = cfg.exclude
          /\ cfgNil = [include |-> cfg.includeNil, exclude |-> cfg.excludeNil]
    /\ callbacks \in {"nil", "set"}
    /\ ctxDone = FALSE
    /\ includePatterns = << >>
    /\ orgSecurity = "null"
    /\ metrics = NewMetrics
    /\ shadow = NewMetrics
    /\ hasNextPage = TRUE
    /\ idx = 1
    /\ posture = Nil
    /\ err = Nil
    /\ calls = << >>
    /\ notes = << >>
    /\ run = 1
    /\ settingsOf \in ReplaySettings
    /\ tape = [org |-> OrgReply("", "null"), repos |-> << >>, err |-> ""]
    /\ plan = << >>
    /\ first = << >>
    /\ FnIdle

ReplayCollectStart == CollectStartStep /\ UNCHANGED restVars

\* FetchOrgSecurity answers; the second call is answered as the first was
ReplayFetchOrgSecurity ==
    /\ pc = "FetchOrgSecurity"
    /\ \E r \in OrgReplies :
          /\ run = 2 => r = tape.org
          /\ IF r.err = "" THEN FetchOrgSecurityReturnsStep(r.value)
                            ELSE FetchOrgSecurityFailsStep(r.err)
          /\ tape' = [tape EXCEPT !.org = r]
    /\ UNCHANGED <<run, settingsOf, plan, first, pureVars>>

\* FetchRepositories delivers a page: any page to the first call, the next
\* page of the plan to the second
ReplayFetchRepositoriesPage ==
    /\ pc = "FetchRepositories"
    /\ IF run = 1
       THEN /\ \E page \in SeqsUpTo(ReplayRepositories, MaxPageLen),
                  next \in BOOLEAN :
                  /\ FetchRepositoriesPageStep(page, next)
                  /\ tape' = [tape EXCEPT !.repos = @ \o page]
            /\ plan' = plan
       ELSE /\ plan # << >>
            /\ FetchRepositoriesPageStep(Head(plan),
                                         Len(plan) > 1 \/ tape.err # "")
            /\ plan' = Tail(plan)
            /\ tape' = tape
    /\ UNCHANGED <<run, settingsOf, first, pureVars>>

\* a query of FetchRepositories fails: at any page of the first call, and at
\* the same place of the second
ReplayFetchRepositoriesFails ==
    /\ pc = "FetchRepositories"
    /\ IF run = 1
       THEN /\ FetchRepositoriesFailsStep("timeout")
            /\ tape' = [tape EXCEPT !.err = "timeout"]
       ELSE /\ plan = << >>
            /\ tape.err # ""
            /\ FetchRepositoriesFailsStep(tape.err)
            /\ tape' = tape
    /\ UNCHANGED <<run, settingsOf, plan, first, pureVars>>

\* FetchSecuritySettings answers what the upstream holds of the repository
ReplayFetchSecuritySettings ==
    /\ pc = "FetchSecuritySettings"
    /\ LET r == settingsOf[metrics.repos[idx]]
       IN  IF r.err = "" THEN FetchSecuritySettingsReturnsStep(r.settings)
                         ELSE FetchSecuritySettingsFailsStep(r.err)
    /\ UNCHANGED restVars

\* the first call has returned; Collect is called once more, on the same
\* Collector or on one that differs in its callbacks only
ReplayCollectAgain ==
    /\ pc = "returned"
    /\ run = 1
    /\ run' = 2
    /\ first' = [posture |-> posture, err |-> err, calls |-> calls,
                 metrics |-> metrics, callbacks |-> callbacks]
    /\ plan' \in Plans
    /\ callbacks' \in {"nil", "set"}
    /\ pc' = "init"
    /\ posture' = Nil
    /\ err' = Nil
    /\ calls' = << >>
    /\ notes' = << >>
    /\ UNCHANGED <<organization, cfgInclude, cfgExclude, cfgNil, ctxDone,
                   includePatterns, orgSecurity, metrics, shadow, hasNextPage,
                   idx, settingsOf, tape, pureVars>>

NextReplay ==
    \/ ReplayCollectStart
    \/ ReplayFetchOrgSecurity
    \/ ReplayFetchRepositoriesPage
    \/ ReplayFetchRepositoriesFails
    \/ ReplayFetchSecuritySettings
    \/ ReplayCollectAgain

SpecReplay == InitReplay /\ [][NextReplay]_vars

-----------------------------------------------------------------------------
(* Collect with a ctx that is cancelled while it runs.  The client is the  *)
(* Client of the github package: once ctx is cancelled its GraphQL query   *)
(* and its repository request fail with the error of ctx, and its          *)
(* FetchOrgSecurity returns an unknown value.                              *)

\* the entry of the history that marks the cancellation of ctx
EvCancel == Ev("ctx.cancel", "", << >>, "ok")

InitCancel ==
    /\ pc = "init"
    /\ organization = "acme"
    /\ \E cfg \in ReplayConfigs :
          /\ cfgInclude = cfg.include
          /\ cfgExclude = cfg.exclude
          /\ cfgNil = [include |-> cfg.includeNil, exclude |-> cfg.excludeNil]
    /\ callbacks = "nil"
    /\ ctxDone = FALSE
    /\ includePatterns = << >>
    /\ orgSecurity = "null"
    /\ metrics = NewMetrics
    /\ shadow = NewMetrics
    /\ hasNextPage = TRUE
    /\ idx = 1
    /\ posture = Nil
    /\ err = Nil
    /\ calls = << >>
    /\ notes = << >>
    /\ run = 1
    /\ settingsOf \in ReplaySettings
    /\ tape = << >>
    /\ plan = << >>
    /\ first = << >>
    /\ FnIdle

\* the caller cancels ctx while Collect has not returned
CancelContext ==
    /\ pc # "returned"
    /\ ~ctxDone
    /\ ctxDone' = TRUE
    /\ calls' = Append(calls, EvCancel)
    /\ UNCHANGED <<pc, organization, cfgInclude, cfgExclude, cfgNil, callbacks,
                   includePatterns, orgSecurity, metrics, hasNextPage, idx,
                   posture, err, shadow, notes, restVars>>

CancelCollectStart == CollectStartStep /\ UNCHANGED restVars

\* Client.FetchOrgSecurity returns: the value of the organization, or an
\* unknown value when ctx is cancelled
CancelFetchOrgSecurity ==
    /\ pc = "FetchOrgSecurity"
    /\ \E v \in {"true", "null"} :
          /\ ctxDone => v = "null"
          /\ FetchOrgSecurityReturnsStep(v)
    /\ UNCHANGED restVars

\* Client.FetchRepositories delivers a page: its query succeeded, so ctx is
\* not cancelled
CancelFetchRepositoriesPage ==
    /\ pc = "FetchRepositories"
    /\ ~ctxDone
    /\ \E page \in SeqsUpTo(ReplayRepositories, MaxPageLen),
          next \in BOOLEAN :
          FetchRepositoriesPageStep(page, next)
    /\ UNCHANGED restVars

\* a query of Client.FetchRepositories fails, as it does once ctx is
\* cancelled
CancelFetchRepositoriesFails ==
    /\ pc = "FetchRepositories"
    /\ FetchRepositoriesFailsStep(IF ctxDone THEN "context canceled"
                                             ELSE "timeout")
    /\ UNCHANGED restVars

\* Client.FetchSecuritySettings returns what the upstream holds of the
\* repository, or the error of ctx once ctx is cancelled
CancelFetchSecuritySettings ==
    /\ pc = "FetchSecuritySettings"
    /\ LET r == settingsOf[metrics.repos[idx]]
       IN  IF ctxDone
           THEN FetchSecuritySettingsFailsStep("context canceled")
           ELSE IF r.err = "" THEN FetchSecuritySettingsReturnsStep(r.settings)
                ELSE FetchSecuritySettingsFailsStep(r.err)
    /\ UNCHANGED restVars

NextCancel ==
    \/ CancelContext
    \/ CancelCollectStart
    \/ CancelFetchOrgSecurity
    \/ CancelFetchRepositoriesPage
    \/ CancelFetchRepositoriesFails
    \/ CancelFetchSecuritySettings

SpecCancel == InitCancel /\ [][NextCancel]_vars

-----------------------------------------------------------------------------
(* Client.FetchOrgSecurity on its own: what it returns for each outcome of *)
(* the request to the organization endpoint.                               *)

\* http.StatusOK
StatusOK == 200

\* the bodies of a response: the field as true, as false, as null, absent,
\* of another type, and a body that is not JSON
ResponseBodies == {"true", "false", "null", "absent", "string", "garbage"}

\* the outcomes of the request: building it, sending it, the status of the
\* response and its body
RestOutcomes ==
    [request   : {"ok", "invalid URL"},
     transport : {"ok", "connection refused", "context canceled",
                  "context deadline exceeded"},
     status    : {StatusOK, 401, 403, 404, 429, 500},
     body      : ResponseBodies]

\* json.NewDecoder(resp.Body).Decode(&result): the field of the result, a
\* *bool, and the error
Decode(body) ==
    CASE body \in {"true", "false"} -> [value |-> body, err |-> Nil]
      [] body \in {"null", "absent"} -> [value |-> "null", err |-> Nil]
      [] body = "string" ->
            [value |-> "null", err |-> Ptr("json: cannot unmarshal string")]
      [] OTHER -> [value |-> "null", err |-> Ptr("invalid character")]

fetchOrgTwoFactorREST(x) ==
    IF x.request # "ok" THEN [value |-> "null", err |-> Ptr(x.request)]
    ELSE IF x.transport # "ok" THEN [value |-> "null", err |-> Ptr(x.transport)]
    ELSE IF x.status # StatusOK
         THEN [value |-> "null",
               err |-> Ptr(<<"org API returned status", x.status>>)]
    ELSE LET d == Decode(x.body)
         IN  IF d.err # Nil THEN [value |-> "null", err |-> d.err]
             ELSE [value |-> d.value, err |-> Nil]

\* FetchOrgSecurity returning the error of the request
FetchOrgSecurityPropagating(x) ==
    LET r == fetchOrgTwoFactorREST(x)
    IN  IF r.err = Nil
        THEN [result |-> Ptr([TwoFactorRequired |-> r.value]), err |-> Nil]
        ELSE [result |-> Nil, err |-> r.err]

\* Client.FetchOrgSecurity: the *OrgSecurity and the error it returns
FetchOrgSecurity(x) ==
    LET r == fetchOrgTwoFactorREST(x)
        result == [TwoFactorRequired |->
                      IF r.err = Nil THEN r.value ELSE "null"]
    IN  [result |-> Ptr(result), err |-> Nil]

InitOrgSecurity ==
    /\ CollectIdle
    /\ cfgInclude = << >>
    /\ cfgExclude = << >>
    /\ ReplayIdle
    /\ ClientIdle
    /\ fnRest \in RestOutcomes
    /\ fnName = << >>
    /\ fnPattern = << >>
    /\ fnResult = "unset"
    /\ fnCount = 0
    /\ fnTotal = 0
    /\ fnMetrics = NewMetrics
    /\ fnValue = Nil

ApplyFetchOrgSecurity ==
    /\ fnValue = Nil
    /\ fnValue' = Ptr(FetchOrgSecurity(fnRest))
    /\ UNCHANGED <<collectVars, replayVars, aggVars, clientVars, fnRest,
                   fnName, fnPattern, fnResult,
                   fnCount, fnTotal, fnMetrics>>

NextOrgSecurity == ApplyFetchOrgSecurity

SpecOrgSecurity == InitOrgSecurity /\ [][NextOrgSecurity]_vars

-----------------------------------------------------------------------------
(* Client.FetchRepositories on its own: the loop that queries the pages of *)
(* an organization and hands each to the callback.  The upstream answers   *)
(* each query as it likes; the callback accepts or rejects each page.      *)

\* most queries the upstream answers with a page
MaxPages == 3

\* what a query fills of RepositoriesQuery: the nodes and the page info
PageResponses ==
    [nodes       : {<< >>, <<"a">>, <<"ab", "b">>},
     hasNextPage : BOOLEAN,
     endCursor   : {"", "Y3Vyc29yOjE", "Y3Vyc29yOjI"}]

\* the entries of the history of the loop
EvQuery(c, result, page) ==
    [op |-> "Query", cursor |-> c, result |-> result, page |-> page]

EvCallback(nodes, result) ==
    [op |-> "callback", nodes |-> nodes, result |-> result]

\* the cursor of the next query, were it never advanced
NextCursorUnadvanced(q) == Nil

\* cursor = &query.Organization.Repositories.PageInfo.EndCursor
NextCursor(q) == Ptr(q.endCursor)

InitPaging ==
    /\ CollectIdle
    /\ cfgInclude = << >>
    /\ cfgExclude = << >>
    /\ ReplayIdle
    /\ fnName = << >>
    /\ fnPattern = << >>
    /\ fnResult = "unset"
    /\ fnCount = 0
    /\ fnTotal = 0
    /\ fnMetrics = NewMetrics
    /\ fnRest = << >>
    /\ fnValue = Nil
    /\ aggMetrics = NewMetrics
    /\ aggBefore = NewMetrics
    /\ aggOp = << >>
    /\ aggFetched = 0
    /\ clPc = "Query"
    /\ cursor = Nil
    /\ query = << >>
    /\ clErr = Nil
    /\ clLog = << >>

\* c.graphql.Query fills query
QueryReturns ==
    /\ clPc = "Query"
    /\ NumEvents(clLog, "Query") < MaxPages
    /\ \E resp \in PageResponses :
          /\ query' = resp
          /\ clLog' = Append(clLog, EvQuery(cursor, "ok", resp))
    /\ clPc' = "callback"
    /\ UNCHANGED <<collectVars, replayVars, fnVars, aggVars, cursor, clErr>>

\* c.graphql.Query fails: return err
QueryFails ==
    /\ clPc = "Query"
    /\ \E e \in ClientErrors :
          /\ clErr' = Ptr(e)
          /\ clLog' = Append(clLog, EvQuery(cursor, e, << >>))
    /\ clPc' = "returned"
    /\ UNCHANGED <<collectVars, replayVars, fnVars, aggVars, cursor, query>>

\* the callback accepts the nodes: break after the last page, or advance
\* the cursor and query again
CallbackReturns ==
    /\ clPc = "callback"
    /\ clLog' = Append(clLog, EvCallback(query.nodes, "ok"))
    /\ IF ~query.hasNextPage
       THEN /\ clPc' = "returned"
            /\ clErr' = Nil
            /\ cursor' = cursor
       ELSE /\ clPc' = "Query"
            /\ clErr' = clErr
            /\ cursor' = NextCursor(query)
    /\ UNCHANGED <<collectVars, replayVars, fnVars, aggVars, query>>

\* the callback rejects the nodes: return err
CallbackFails ==
    /\ clPc = "callback"
    /\ \E e \in {"callback failed"} :
          /\ clErr' = Ptr(e)
          /\ clLog' = Append(clLog, EvCallback(query.nodes, e))
    /\ clPc' = "returned"
    /\ UNCHANGED <<collectVars, replayVars, fnVars, aggVars, cursor, query>>

NextPaging ==
    \/ QueryReturns
    \/ QueryFails
    \/ CallbackReturns
    \/ CallbackFails

SpecPaging == InitPaging /\ [][NextPaging]_vars

-----------------------------------------------------------------------------
(* The metrics aggregator on its own: processRepository applied to the     *)
(* repositories of the pages, then countSecuritySettings applied to the    *)
(* settings fetched for the repositories of the list, in the order of the  *)
(* list.                                                                   *)

\* the rule and the alerts flag of a repository: no rule, a rule with no
\* flag, with every flag, and with some
AggFeatures ==
    FeatureSamples
        \cup {[bp |-> Ptr(Rule(FALSE, FALSE, FALSE, FALSE, FALSE, FALSE)),
               alerts |-> TRUE]}

\* the repositories handed to processRepository: with the patterns a* and
\* *b, acme/a is included and acme/ab excluded
AggRepositories ==
    {[Name |-> id.name, Owner |-> id.owner, BranchProtectionRule |-> f.bp,
      HasVulnerabilityAlertsEnabled |-> f.alerts] :
        id \in {i \in RepoIds : i.owner = "acme"}, f \in AggFeatures}

InitAggregator ==
    /\ CollectIdle
    /\ cfgInclude = << <<"a", "*">> >>
    /\ cfgExclude = << <<"*", "b">> >>
    /\ ReplayIdle
    /\ fnName = << >>
    /\ fnPattern = << >>
    /\ fnResult = "unset"
    /\ fnCount = 0
    /\ fnTotal = 0
    /\ fnMetrics = NewMetrics
    /\ fnRest = << >>
    /\ fnValue = Nil
    /\ aggMetrics = NewMetrics
    /\ aggBefore = NewMetrics
    /\ aggOp = << >>
    /\ aggFetched = 0
    /\ clPc = "off"
    /\ cursor = Nil
    /\ query = << >>
    /\ clErr = Nil
    /\ clLog = << >>

\* metrics.processRepository(repo, includePatterns, c.config.ExcludePatterns)
ApplyProcessRepository ==
    /\ aggFetched = 0
    /\ aggMetrics.totalRepos + aggMetrics.excludedRepos < MaxRepos
    /\ \E repo \in AggRepositories :
          /\ aggMetrics' = processRepository(aggMetrics, repo,
                                             cfgInclude, cfgExclude)
          /\ aggOp' = <<[op |-> "processRepository", repo |-> repo]>>
    /\ aggBefore' = aggMetrics
    /\ UNCHANGED <<collectVars, replayVars, fnVars, clientVars, aggFetched>>

\* metrics.countSecuritySettings(settings) for the next repository of
\* metrics.repos
ApplyCountSecuritySettings ==
    /\ aggFetched < Len(aggMetrics.repos)
    /\ \E settings \in SecuritySettings :
          /\ aggMetrics' = countSecuritySettings(aggMetrics, settings)
          /\ aggOp' = <<[op |-> "countSecuritySettings",
                         repo |-> aggMetrics.repos[aggFetched + 1],
                         settings |-> settings]>>
    /\ aggBefore' = aggMetrics
    /\ aggFetched' = aggFetched + 1
    /\ UNCHANGED <<collectVars, replayVars, fnVars, clientVars>>

NextAggregator ==
    \/ ApplyProcessRepository
    \/ ApplyCountSecuritySettings

SpecAggregator == InitAggregator /\ [][NextAggregator]_vars

-----------------------------------------------------------------------------
(* Collect against a client whose every call returns and whose upstream    *)
(* may report HasNextPage=true for as long as it likes: the pages it       *)
(* delivers may be empty, and the cursor of FetchRepositories follows the  *)
(* EndCursor of each.  The upstream is fair in that it does not report     *)
(* HasNextPage=true for ever without failing.                              *)

\* the EndCursor of a page
EndCursors == {"Y3Vyc29yOjE", "Y3Vyc29yOjI"}

InitLive == InitCancel

LiveCollectStart == CollectStartStep /\ UNCHANGED restVars

LiveFetchOrgSecurity ==
    /\ pc = "FetchOrgSecurity"
    /\ \/ \E v \in {"true", "null"} : FetchOrgSecurityReturnsStep(v)
       \/ FetchOrgSecurityFailsStep("forbidden")
    /\ UNCHANGED restVars

\* a page with HasNextPage=true: the callback runs and FetchRepositories
\* queries again, with the EndCursor of the page
LiveFetchRepositoriesPage ==
    /\ pc = "FetchRepositories"
    /\ \E page \in SeqsUpTo(ReplayRepositories, 1), c \in EndCursors :
          /\ NumEvents(calls, "processRepository") + Len(page) <= MaxRepos
          /\ FetchRepositoriesAnyPageStep(page, TRUE)
          /\ cursor' = Ptr(c)
    /\ UNCHANGED <<replayVars, fnVars, aggVars, clPc, query, clErr, clLog>>

\* a page with HasNextPage=false: the callback runs and FetchRepositories
\* returns
LiveFetchRepositoriesLastPage ==
    /\ pc = "FetchRepositories"
    /\ \E page \in SeqsUpTo(ReplayRepositories, 1) :
          /\ NumEvents(calls, "processRepository") + Len(page) <= MaxRepos
          /\ FetchRepositoriesAnyPageStep(page, FALSE)
    /\ UNCHANGED restVars

LiveFetchRepositoriesFails ==
    /\ pc = "FetchRepositories"
    /\ FetchRepositoriesFailsStep("timeout")
    /\ UNCHANGED restVars

LiveFetchSecuritySettings ==
    /\ pc = "FetchSecuritySettings"
    /\ LET r == settingsOf[metrics.repos[idx]]
       IN  IF r.err = "" THEN FetchSecuritySettingsReturnsStep(r.settings)
           ELSE FetchSecuritySettingsFailsStep(r.err)
    /\ UNCHANGED restVars

NextLive ==
    \/ LiveCollectStart
    \/ LiveFetchOrgSecurity
    \/ LiveFetchRepositoriesPage
    \/ LiveFetchRepositoriesLastPage
    \/ LiveFetchRepositoriesFails
    \/ LiveFetchSecuritySettings

\* Collect runs on, every call of FetchOrgSecurity and of
\* FetchSecuritySettings returns, and the upstream does not go on reporting
\* HasNextPage=true for ever: it fails or delivers a last page
SpecLive ==
    /\ InitLive
    /\ [][NextLive]_vars
    /\ WF_vars(LiveCollectStart)
    /\ WF_vars(LiveFetchOrgSecurity)
    /\ WF_vars(LiveFetchSecuritySettings)
    /\ WF_vars(LiveFetchRepositoriesLastPage \/ LiveFetchRepositoriesFails)

-----------------------------------------------------------------------------
(* Properties *)

Range(f) == {f[i] : i \in DOMAIN f}

EventsOf(op) ==
    LET Is(e) == e.op = op IN SelectSeq(calls, Is)

Identities(events) ==
    [i \in 1..Len(events) |-> [owner |-> events[i].owner,
                               name  |-> events[i].name]]

\* the repositories observed so far that the scope filter accepts, in order
AcceptedEvents ==
    LET Accepted(e) == /\ e.op = "processRepository"
                       /\ ShouldIncludeRepo(e.name, includePatterns, cfgExclude)
    IN  SelectSeq(calls, Accepted)

Observed == NumEvents(calls, "processRepository")

Failed(op) == \E i \in 1..Len(calls) : calls[i].op = op /\ calls[i].result # "ok"

ReportReturned == pc = "returned" /\ posture # Nil

\* C1: after any sequence of processRepository calls, totalRepos +
\* excludedRepos equals the number of repositories observed so far: every
\* observed repository is counted in exactly one of the two.
C1_IncludedPlusExcludedIsObserved ==
    /\ metrics.totalRepos + metrics.excludedRepos = Observed
    /\ metrics.totalRepos = Len(AcceptedEvents)
    /\ metrics.excludedRepos = Observed - Len(AcceptedEvents)

C1_Witness ==
    /\ metrics.totalRepos >= 1
    /\ metrics.excludedRepos >= 1
    /\ Observed = 2

\* C2: in every state of a Collect run each branch-protection counter and
\* each security-feature counter lies between 0 and totalRepos.
C2_CountersWithinIncluded ==
    \A k \in BranchProtectionCounters \cup SecurityFeatureCounters
             \cup {"branchProtectionEnabled"} :
        metrics[k] \in 0..metrics.totalRepos

C2_Witness ==
    /\ pc = "returned"
    /\ metrics.totalRepos = 2
    /\ metrics.excludedRepos = 0
    /\ metrics.secretScanningEnabled = 2
    /\ metrics.dependabotSecurityUpdatesEnabled = 1
    /\ metrics.requireStatusChecks = 2
    /\ metrics.enforceAdmins = 1

PercentFields(report) ==
    {report.scope.repositories_coverage,
     report.posture.branch_protection_coverage,
     report.posture.security_features_coverage}
        \cup Range(report.branch_protection_rules)
        \cup Range(report.security_features)

\* C3: every percentage field of a report returned by Collect is an integer
\* between 0 and 100.
C3_PercentagesInRange ==
    ReportReturned => \A x \in PercentFields(posture[1]) : x \in 0..100

C3_Witness ==
    /\ ReportReturned
    /\ posture[1].scope.repositories_coverage = 50
    /\ posture[1].posture.security_features_coverage = 100
    /\ posture[1].posture.branch_protection_coverage = 0

PhaseOf(op) ==
    CASE op = "FetchOrgSecurity" -> 1
      [] op \in {"FetchRepositories", "processRepository",
                 "FetchRepositoriesReturn"} -> 2
      [] op = "FetchSecuritySettings" -> 3
      [] OTHER -> 4

\* C4: the phases run in the order 1, 2, 3: the one FetchOrgSecurity call
\* completes before FetchRepositories starts, every processRepository call
\* comes before the first FetchSecuritySettings call, and the report is built
\* once, after the settings fetch of the last accepted repository.
C4_PhasesInOrder ==
    /\ \A i, j \in 1..Len(calls) :
          i < j => PhaseOf(calls[i].op) <= PhaseOf(calls[j].op)
    /\ NumEvents(calls, "FetchOrgSecurity") <= 1
    /\ NumEvents(calls, "FetchRepositories") <= 1
    /\ NumEvents(calls, "FetchRepositories") = 1 =>
          /\ calls[1] = Ev("FetchOrgSecurity", organization, << >>, "ok")
          /\ calls[2].op = "FetchRepositories"
    /\ NumEvents(calls, "FetchSecuritySettings") > 0 =>
          NumEvents(calls, "FetchRepositoriesReturn") = 1
    /\ NumEvents(calls, "populatePosture") <= 1
    /\ (posture # Nil) <=> (NumEvents(calls, "populatePosture") = 1)
    /\ NumEvents(calls, "populatePosture") = 1 =>
          /\ pc = "returned"
          /\ calls[Len(calls)] = EvPopulate
          /\ NumEvents(calls, "FetchSecuritySettings") = Len(metrics.repos)
          /\ Len(metrics.repos) = metrics.totalRepos

C4_Witness ==
    /\ ReportReturned
    /\ Observed = 2
    /\ NumEvents(calls, "FetchSecuritySettings") = 2

\* C5: if FetchOrgSecurity fails, Collect returns no report and the error
\* wrapped with "failed to fetch org security: ", and neither
\* FetchRepositories nor FetchSecuritySettings is called.
C5_OrgSecurityFailureAborts ==
    \A i \in 1..Len(calls) :
        (calls[i].op = "FetchOrgSecurity" /\ calls[i].result # "ok") =>
            /\ pc = "returned"
            /\ posture = Nil
            /\ err = <<"failed to fetch org security: ", calls[i].result>>
            /\ NumEvents(calls, "FetchRepositories") = 0
            /\ NumEvents(calls, "processRepository") = 0
            /\ NumEvents(calls, "FetchSecuritySettings") = 0

C5_Witness == Failed("FetchOrgSecurity") /\ err[2] = "forbidden"

\* C6: if the enumeration fails on any page, Collect returns no report and
\* the error wrapped with "failed to fetch repositories: "; what was counted
\* is discarded and no FetchSecuritySettings call is issued.
C6_RepositoriesFailureAborts ==
    \A i \in 1..Len(calls) :
        (calls[i].op = "FetchRepositoriesReturn" /\ calls[i].result # "ok") =>
            /\ pc = "returned"
            /\ posture = Nil
            /\ err = <<"failed to fetch repositories: ", calls[i].result>>
            /\ NumEvents(calls, "FetchSecuritySettings") = 0
            /\ NumEvents(calls, "populatePosture") = 0

C6_Witness ==
    /\ Failed("FetchRepositoriesReturn")
    /\ metrics.totalRepos >= 1
    /\ metrics.branchProtectionEnabled >= 1

\* C7: if FetchSecuritySettings fails for some accepted repositories, Collect
\* still returns a report and no error, the remaining fetches are still
\* issued, and the report is the one produced had each failed fetch returned
\* an all-false settings value.
C7_SettingsFailureIsAllFalse ==
    /\ metrics = shadow
    /\ (pc = "returned" /\ Failed("FetchSecuritySettings")) =>
          /\ err = Nil
          /\ posture = Ptr(populatePosture(organization, cfgExclude,
                                           orgSecurity, shadow,
                                           includePatterns))
          /\ NumEvents(calls, "FetchSecuritySettings") = Len(metrics.repos)
          /\ Len(metrics.repos) = metrics.totalRepos

C7_Witness ==
    /\ pc = "returned"
    /\ metrics.totalRepos = 2
    /\ LET fetches == EventsOf("FetchSecuritySettings")
       IN  /\ Len(fetches) = 2
           /\ fetches[1].result # "ok"
           /\ fetches[2].result = "ok"
    /\ metrics.codeScanningEnabled = 1

\* C8: Collect issues exactly one FetchSecuritySettings call for each
\* repository accepted by the scope filter, with its owner and name, in the
\* order of acceptance, never a second call after a failure and none for an
\* excluded repository; the number of calls is the included count.
C8_OneFetchPerAccepted ==
    LET fetched  == Identities(EventsOf("FetchSecuritySettings"))
        accepted == Identities(AcceptedEvents)
    IN  /\ metrics.repos = accepted
        /\ pc \in {"init", "FetchOrgSecurity", "FetchRepositories"} =>
              fetched = << >>
        /\ pc = "FetchSecuritySettings" =>
              /\ idx \in 1..Len(accepted)
              /\ fetched = SubSeq(accepted, 1, idx - 1)
        /\ ReportReturned =>
              /\ fetched = accepted
              /\ Len(fetched) = metrics.totalRepos

C8_Witness ==
    /\ ReportReturned
    /\ metrics.excludedRepos = 1
    /\ Failed("FetchSecuritySettings")
    /\ Identities(EventsOf("FetchSecuritySettings"))
          = <<[owner |-> "acme", name |-> <<"a">>]>>

\* C9: ShouldIncludeRepo is true exactly when the name matches no exclude
\* pattern and matches at least one include pattern; so a name matching an
\* exclude pattern is rejected whatever it includes, and an empty include
\* list rejects every name.
C9_ExcludeThenInclude ==
    fnResult # "unset" =>
        /\ (fnResult = "true") <=>
              /\ \A p \in Range(cfgExclude) : ~MatchesPattern(fnName, p)
              /\ \E p \in Range(cfgInclude) : MatchesPattern(fnName, p)
        /\ cfgInclude = << >> => fnResult = "false"

C9_Witness ==
    /\ fnResult = "false"
    /\ \E p \in Range(cfgExclude) : MatchesPattern(fnName, p)
    /\ \E p \in Range(cfgInclude) : MatchesPattern(fnName, p)

\* the reference: an anchored glob match, where "*" stands for zero or more
\* characters, "?" for exactly one, and any other character for itself
RECURSIVE GlobMatch(_, _)
GlobMatch(name, pattern) ==
    IF pattern = << >> THEN name = << >>
    ELSE IF Head(pattern) = "*"
         THEN \/ GlobMatch(name, Tail(pattern))
              \/ name # << >> /\ GlobMatch(Tail(name), pattern)
    ELSE IF Head(pattern) = "?"
         THEN name # << >> /\ GlobMatch(Tail(name), Tail(pattern))
    ELSE /\ name # << >>
         /\ Head(name) = Head(pattern)
         /\ GlobMatch(Tail(name), Tail(pattern))

\* C10: MatchesPattern equals the anchored glob match for every name and
\* every pattern: "*" matches zero or more characters, "?" exactly one,
\* every other character only itself, and the whole name is consumed.
C10_MatchesPatternIsGlob ==
    fnResult # "unset" =>
        ((fnResult = "true") <=> GlobMatch(fnName, fnPattern))

\* MatchesPattern equals the anchored glob match for every name that holds
\* no line feed
MatchesPatternIsGlobWithoutLineFeed ==
    (fnResult # "unset" /\ "\n" \notin Range(fnName)) =>
        ((fnResult = "true") <=> GlobMatch(fnName, fnPattern))

\* p is the quotient of count * 100 by total, rounded down
IsFloorPercent(p, count, total) ==
    /\ p * total <= count * 100
    /\ count * 100 < (p + 1) * total

\* p is what the report holds for count out of total
IsPercentOf(p, count, total) ==
    IF total = 0 THEN p = 0 ELSE IsFloorPercent(p, count, total)

\* the observed repositories that match no exclude pattern, in order
NotExcludedEvents ==
    LET NotExcluded(e) ==
            /\ e.op = "processRepository"
            /\ \A q \in Range(cfgExclude) : ~MatchesPattern(e.name, q)
    IN  SelectSeq(calls, NotExcluded)

\* C11: when the configured IncludePatterns is nil or empty Collect behaves
\* as if it were ["*"]: every repository that matches no exclude pattern is
\* included and the report's include_patterns is exactly ["*"]; in every
\* report include_patterns and exclude_patterns are lists, never null, and a
\* nil ExcludePatterns is reported as the empty list.
C11_EmptyIncludeIsStar ==
    /\ Len(cfgInclude) = 0 =>
          /\ metrics.repos = Identities(NotExcludedEvents)
          /\ metrics.totalRepos = Len(NotExcludedEvents)
          /\ ReportReturned =>
                posture[1].scope.include_patterns = Slice(FALSE, << <<"*">> >>)
    /\ ReportReturned =>
          /\ ~posture[1].scope.include_patterns.null
          /\ ~posture[1].scope.exclude_patterns.null
          /\ posture[1].scope.exclude_patterns.items = cfgExclude
          /\ Len(cfgInclude) > 0 =>
                posture[1].scope.include_patterns.items = cfgInclude

C11_Witness ==
    /\ ReportReturned
    /\ cfgNil = [include |-> TRUE, exclude |-> TRUE]
    /\ metrics.totalRepos = 2
    /\ posture[1].scope.include_patterns = Slice(FALSE, << <<"*">> >>)
    /\ posture[1].scope.exclude_patterns = Slice(FALSE, << >>)

\* C12: percent(count, total) is 0 when total is 0, whatever the count, and
\* otherwise count * 100 / total rounded down; so percent(0, t) = 0 and
\* percent(t, t) = 100 for t > 0, percent(1, 3) = 33 and percent(2, 3) = 66.
C12_PercentTruncates ==
    fnValue # Nil =>
        LET p == fnValue[1] IN
        /\ fnTotal = 0 => p = 0
        /\ fnTotal > 0 => IsFloorPercent(p, fnCount, fnTotal)
        /\ fnCount = 0 => p = 0
        /\ (fnTotal > 0 /\ fnCount = fnTotal) => p = 100
        /\ (fnCount = 1 /\ fnTotal = 3) => p = 33
        /\ (fnCount = 2 /\ fnTotal = 3) => p = 66

C12_Witness == fnCount = 2 /\ fnTotal = 3 /\ fnValue = Ptr(66)

\* the five counters of the security features, added up
SecurityFeaturesSum(m) ==
    m.vulnerabilityAlertsEnabled + m.codeScanningEnabled
        + m.secretScanningEnabled + m.secretScanningPushProtection
        + m.dependabotSecurityUpdatesEnabled

\* the average, rounded down, of the five percentages, each rounded down
AverageOfPercents(m) ==
    LET P(count) == IF m.totalRepos = 0 THEN 0
                    ELSE (count * 100) \div m.totalRepos
    IN  (P(m.vulnerabilityAlertsEnabled) + P(m.codeScanningEnabled)
            + P(m.secretScanningEnabled) + P(m.secretScanningPushProtection)
            + P(m.dependabotSecurityUpdatesEnabled)) \div 5

\* C13: security_features_coverage is the sum of the five security feature
\* counters times 100 over five times the included count, rounded down once
\* at the end, and 0 when the included count is 0; it is not the average of
\* the five rounded percentages, which it is never below and can exceed.
C13_CoverageTruncatesOnce ==
    fnValue # Nil =>
        LET p == fnValue[1] IN
        /\ IsPercentOf(p, SecurityFeaturesSum(fnMetrics),
                       fnMetrics.totalRepos * 5)
        /\ p >= AverageOfPercents(fnMetrics)

C13_Witness ==
    /\ fnValue # Nil
    /\ fnMetrics.totalRepos = 3
    /\ fnValue[1] > AverageOfPercents(fnMetrics)

\* C14: in every report repositories_coverage is the percentage of the
\* included count in the included plus the excluded count, while
\* branch_protection_coverage and each of the twelve percentages of the two
\* breakdowns is the percentage of its counter in the included count; with no
\* repository observed all of them are 0.
C14_DenominatorIsIncluded ==
    ReportReturned =>
        LET r == posture[1]
            included == metrics.totalRepos
            rules == r.branch_protection_rules
            features == r.security_features
        IN  /\ IsPercentOf(r.scope.repositories_coverage, included,
                           included + metrics.excludedRepos)
            /\ IsPercentOf(r.posture.branch_protection_coverage,
                           metrics.branchProtectionEnabled, included)
            /\ IsPercentOf(rules.pull_request_required,
                           metrics.requirePullRequest, included)
            /\ IsPercentOf(rules.approving_reviews,
                           metrics.requireApprovingReviews, included)
            /\ IsPercentOf(rules.dismiss_stale_reviews,
                           metrics.dismissStaleReviews, included)
            /\ IsPercentOf(rules.code_owner_reviews,
                           metrics.requireCodeOwnerReviews, included)
            /\ IsPercentOf(rules.status_checks,
                           metrics.requireStatusChecks, included)
            /\ IsPercentOf(rules.signed_commits,
                           metrics.requireSignedCommits, included)
            /\ IsPercentOf(rules.admin_enforcement,
                           metrics.enforceAdmins, included)
            /\ IsPercentOf(features.vulnerability_alerts,
                           metrics.vulnerabilityAlertsEnabled, included)
            /\ IsPercentOf(features.code_scanning,
                           metrics.codeScanningEnabled, included)
            /\ IsPercentOf(features.secret_scanning,
                           metrics.secretScanningEnabled, included)
            /\ IsPercentOf(features.secret_scanning_push_protection,
                           metrics.secretScanningPushProtection, included)
            /\ IsPercentOf(features.dependabot_security_updates,
                           metrics.dependabotSecurityUpdatesEnabled, included)
            /\ DOMAIN rules = {"pull_request_required", "approving_reviews",
                               "dismiss_stale_reviews", "code_owner_reviews",
                               "status_checks", "signed_commits",
                               "admin_enforcement"}
            /\ DOMAIN features = {"vulnerability_alerts", "code_scanning",
                                  "secret_scanning",
                                  "secret_scanning_push_protection",
                                  "dependabot_security_updates"}
            /\ Observed = 0 => \A x \in PercentFields(r) : x = 0

C14_Witness ==
    /\ ReportReturned
    /\ metrics.totalRepos = 1
    /\ metrics.excludedRepos = 1
    /\ posture[1].scope.repositories_coverage = 50
    /\ posture[1].security_features.vulnerability_alerts = 100
    /\ posture[1].security_features.code_scanning = 100
    /\ posture[1].posture.branch_protection_coverage = 100

\* what FetchOrgSecurity returned to this Collect call
FetchedTwoFactor == orgSecurity

\* C15: the report's two_factor_required is the value FetchOrgSecurity
\* returned: null exactly when the fetched value is null, never false in its
\* place; a null value leaves Collect successful and every percentage what
\* the counters make it.
C15_TwoFactorPassedThrough ==
    ReportReturned =>
        LET r == posture[1]
            known == populatePosture(organization, cfgExclude, "true",
                                     metrics, includePatterns)
        IN  /\ NumEvents(calls, "FetchOrgSecurity") = 1
            /\ r.access_control.two_factor_required = FetchedTwoFactor
            /\ (r.access_control.two_factor_required = "null")
                    <=> (FetchedTwoFactor = "null")
            /\ err = Nil
            /\ r.scope = known.scope
            /\ r.posture = known.posture
            /\ r.branch_protection_rules = known.branch_protection_rules
            /\ r.security_features = known.security_features

C15_Witness ==
    /\ ReportReturned
    /\ FetchedTwoFactor = "null"
    /\ posture[1].access_control.two_factor_required = "null"
    /\ posture[1].posture.branch_protection_coverage = 100
    /\ posture[1].posture.security_features_coverage = 100

C20_OrganizationRequired ==
    organization = "" =>
        /\ pc \in {"init", "returned"}
        /\ calls = << >>
        /\ pc = "returned" =>
              /\ posture = Nil
              /\ err = <<"organization is required">>

C20_Witness ==
    /\ organization = ""
    /\ pc = "returned"
    /\ err = <<"organization is required">>

\* the second call has returned
SecondReturned == run = 2 /\ pc = "returned"

\* the second call was delivered the repositories in the order of the first
SameOrder == EventsOf("processRepository")
                 = LET Is(e) == e.op = "processRepository"
                   IN  SelectSeq(first.calls, Is)

\* the counters of an aggregator
Counters(m) ==
    [k \in BranchProtectionCounters \cup SecurityFeatureCounters
              \cup {"totalRepos", "excludedRepos", "branchProtectionEnabled"}
        |-> m[k]]

\* C17: a second Collect call on the same Collector, against the same
\* upstream, returns the report the first call returned (collected_at is
\* not compared); the second call starts from a zeroed aggregator and no
\* count of the first call is carried over.
C17_SecondCallSameReport ==
    /\ (pc = "FetchRepositories" /\ Observed = 0) => metrics = NewMetrics
    /\ (SecondReturned /\ callbacks = first.callbacks /\ SameOrder) =>
          /\ posture = first.posture
          /\ err = first.err
          /\ Counters(metrics) = Counters(first.metrics)

C17_Witness ==
    /\ SecondReturned
    /\ callbacks = first.callbacks
    /\ SameOrder
    /\ posture # Nil
    /\ metrics.totalRepos = 2
    /\ metrics.codeScanningEnabled >= 1
    /\ metrics.branchProtectionEnabled >= 1

\* C18: the final counters and every percentage of the report are the same
\* whatever the order the repositories arrive in and whatever the pages they
\* arrive in, and so whatever the order the settings answers are counted in.
C18_OrderDoesNotMatter ==
    (SecondReturned /\ first.posture # Nil) =>
        /\ posture # Nil
        /\ Counters(metrics) = Counters(first.metrics)
        /\ posture[1].scope.repositories_coverage
              = first.posture[1].scope.repositories_coverage
        /\ posture[1].posture = first.posture[1].posture
        /\ posture[1].branch_protection_rules
              = first.posture[1].branch_protection_rules
        /\ posture[1].security_features = first.posture[1].security_features

C18_Witness ==
    /\ SecondReturned
    /\ first.posture # Nil
    /\ metrics.totalRepos = 2
    /\ metrics.repos # first.metrics.repos
    /\ metrics.enforceAdmins = 1
    /\ metrics.codeScanningEnabled = 1
    /\ hasNextPage = FALSE

\* C19: the callbacks do not change what Collect does: against the same
\* upstream a call with OnStatus and OnProgress set and a call with both nil
\* return the same report or the same error and make the same client calls
\* in the same order.
C19_CallbacksDoNotMatter ==
    (SecondReturned /\ callbacks # first.callbacks /\ SameOrder) =>
        /\ posture = first.posture
        /\ err = first.err
        /\ calls = first.calls
        /\ (callbacks = "nil") <=> (notes = << >>)

C19_Witness ==
    /\ SecondReturned
    /\ callbacks = "set"
    /\ first.callbacks = "nil"
    /\ SameOrder
    /\ posture # Nil
    /\ NumEvents(calls, "FetchSecuritySettings") = 2
    /\ \E i \in 1..Len(notes) :
          notes[i].kind = "progress" /\ notes[i].current = 2

\* ctx was cancelled at entry i of the history, after FetchRepositories had
\* returned without an error: while the settings were being fetched
CancelledInPhase3(i) ==
    /\ calls[i] = EvCancel
    /\ \E j \in 1..(i - 1) :
          calls[j].op = "FetchRepositoriesReturn" /\ calls[j].result = "ok"

\* C21: if ctx is cancelled while the settings are being fetched, Collect
\* issues no settings fetch beyond the one in flight and returns an error
\* and no report.
C21_CancelInPhase3Aborts ==
    \A i \in 1..Len(calls) :
        CancelledInPhase3(i) =>
            /\ Cardinality({k \in (i + 1)..Len(calls) :
                                calls[k].op = "FetchSecuritySettings"}) <= 1
            /\ pc = "returned" => (posture = Nil /\ err # Nil)

\* what Collect does when ctx is cancelled while the settings are being
\* fetched: every remaining fetch is issued and fails, and the report is
\* returned without an error
CancelInPhase3StillReports ==
    \A i \in 1..Len(calls) :
        (CancelledInPhase3(i) /\ pc = "returned") =>
            /\ posture # Nil
            /\ err = Nil
            /\ NumEvents(calls, "FetchSecuritySettings") = Len(metrics.repos)
            /\ \A k \in (i + 1)..Len(calls) :
                  calls[k].op = "FetchSecuritySettings" =>
                      calls[k].result = "context canceled"


\* the request to the organization endpoint succeeded: it could be built and
\* sent, the status is 200 and the body is JSON with the field, if present,
\* a boolean or null
RestSucceeded(x) ==
    /\ x.request = "ok"
    /\ x.transport = "ok"
    /\ x.status = 200
    /\ x.body \in {"true", "false", "null", "absent"}

\* C22: Client.FetchOrgSecurity never returns an error and always a non-nil
\* OrgSecurity; when the request fails for any reason TwoFactorRequired is
\* nil, and when it succeeds TwoFactorRequired is the value of the field:
\* true, false, or nil if the field is absent.
C22_FetchOrgSecurityNeverFails ==
    fnValue # Nil =>
        LET r == fnValue[1] IN
        /\ r.err = Nil
        /\ r.result # Nil
        /\ ~RestSucceeded(fnRest) => r.result[1].TwoFactorRequired = "null"
        /\ RestSucceeded(fnRest) =>
              r.result[1].TwoFactorRequired =
                  (IF fnRest.body \in {"true", "false"} THEN fnRest.body
                   ELSE "null")

C22_Witness ==
    /\ fnValue # Nil
    /\ fnRest.request = "ok"
    /\ fnRest.transport = "ok"
    /\ fnRest.status = 403
    /\ fnValue[1].err = Nil
    /\ fnValue[1].result = Ptr([TwoFactorRequired |-> "null"])


\* C23: Client.FetchRepositories follows the pagination protocol: the first
\* query has a null cursor and each later query the EndCursor of the
\* response just before it; the callback is called once for each fetched
\* page, in the order fetched; no query follows a page with
\* HasNextPage=false; an error of a query or of the callback ends the loop
\* at once and is the error returned.
C23_PaginationProtocol ==
    LET n == Len(clLog) IN
    /\ \A i \in 1..n :
          /\ (i % 2 = 1) => clLog[i].op = "Query"
          /\ (i % 2 = 0) =>
                /\ clLog[i].op = "callback"
                /\ clLog[i - 1].result = "ok"
                /\ clLog[i].nodes = clLog[i - 1].page.nodes
          /\ i < n => clLog[i].result = "ok"
    /\ n >= 1 => clLog[1].cursor = Nil
    /\ \A i \in 3..n :
          (i % 2 = 1) =>
              /\ clLog[i - 2].page.hasNextPage
              /\ clLog[i].cursor = Ptr(clLog[i - 2].page.endCursor)
    /\ (clPc = "Query") =
          (n % 2 = 0 /\ (n > 0 => (/\ clLog[n].result = "ok"
                                   /\ clLog[n - 1].page.hasNextPage)))
    /\ (clPc = "callback") = (n % 2 = 1 /\ clLog[n].result = "ok")
    /\ clPc = "returned" =>
          /\ n >= 1
          /\ IF clLog[n].result = "ok"
             THEN /\ clLog[n].op = "callback"
                  /\ ~clLog[n - 1].page.hasNextPage
                  /\ clErr = Nil
             ELSE clErr = Ptr(clLog[n].result)

C23_Witness ==
    /\ clPc = "returned"
    /\ clErr = Nil
    /\ Len(clLog) = 6
    /\ clLog[3].cursor = Ptr("Y3Vyc29yOjE")
    /\ clLog[5].cursor = Ptr("Y3Vyc29yOjI")


\* the method applied last to the aggregator is op
Applied(op) == aggOp # << >> /\ aggOp[1].op = op

\* processRepository was applied last, to a repository the scope filter
\* accepts (or, with accepted FALSE, rejects)
Processed(accepted) ==
    /\ Applied("processRepository")
    /\ ShouldIncludeRepo(aggOp[1].repo.Name, cfgInclude, cfgExclude) = accepted

\* counter name of the aggregator has grown by n in the last application
Grown(name, n) == aggMetrics[name] = aggBefore[name] + n

\* the counter of each flag of a branch protection rule
RuleFlagCounters(r) ==
    [requirePullRequest      |-> r.RequiresApprovingReviews,
     requireApprovingReviews |-> r.RequiresApprovingReviews,
     dismissStaleReviews     |-> r.DismissesStaleReviews,
     requireCodeOwnerReviews |-> r.RequiresCodeOwnerReviews,
     requireStatusChecks     |-> r.RequiresStatusChecks,
     requireSignedCommits    |-> r.RequiresCommitSignatures,
     enforceAdmins           |-> r.IsAdminEnforced]

\* C24: processRepository on a repository the scope filter accepts adds 1
\* to totalRepos, appends the one identity of the repository to repos, adds
\* 1 to vulnerabilityAlertsEnabled iff the flag is set, and, iff a rule is
\* present, adds 1 to branchProtectionEnabled and to the counter of each
\* flag of the rule that is true; with no rule no branch protection counter
\* changes.  Nothing else changes.
C24_AcceptedRepositoryCounted ==
    Processed(TRUE) =>
        LET repo == aggOp[1].repo
            bp == repo.BranchProtectionRule
        IN  /\ Grown("totalRepos", 1)
            /\ Grown("excludedRepos", 0)
            /\ aggMetrics.repos =
                  Append(aggBefore.repos,
                         [owner |-> repo.Owner, name |-> repo.Name])
            /\ Grown("vulnerabilityAlertsEnabled",
                     IF repo.HasVulnerabilityAlertsEnabled THEN 1 ELSE 0)
            /\ Grown("branchProtectionEnabled", IF bp # Nil THEN 1 ELSE 0)
            /\ \A c \in BranchProtectionCounters :
                  Grown(c, IF bp # Nil /\ RuleFlagCounters(bp[1])[c]
                           THEN 1 ELSE 0)
            /\ \A c \in SettingsCounters : Grown(c, 0)

C24_Witness ==
    /\ Processed(TRUE)
    /\ aggOp[1].repo.BranchProtectionRule =
          Ptr(Rule(FALSE, TRUE, FALSE, TRUE, FALSE, FALSE))
    /\ aggBefore.totalRepos = 1
    /\ aggMetrics.totalRepos = 2
    /\ aggMetrics.requireStatusChecks > aggMetrics.requireApprovingReviews

\* C25: processRepository on a repository the scope filter rejects adds 1
\* to excludedRepos and changes nothing else, whatever the rule and the
\* alerts flag of the repository; and no settings are fetched for a
\* repository the scope filter rejects.
C25_RejectedRepositoryOnlyExcluded ==
    /\ Processed(FALSE) =>
          aggMetrics = [aggBefore EXCEPT !.excludedRepos = @ + 1]
    /\ Applied("countSecuritySettings") =>
          ShouldIncludeRepo(aggOp[1].repo.name, cfgInclude, cfgExclude)
    /\ \A i \in 1..Len(aggMetrics.repos) :
          ShouldIncludeRepo(aggMetrics.repos[i].name, cfgInclude, cfgExclude)

C25_Witness ==
    /\ Processed(FALSE)
    /\ aggOp[1].repo.BranchProtectionRule # Nil
    /\ aggOp[1].repo.HasVulnerabilityAlertsEnabled
    /\ aggBefore.totalRepos = 1
    /\ aggMetrics.excludedRepos = 1
    /\ aggMetrics.branchProtectionEnabled = 0

\* C26: countSecuritySettings adds 1 to each of the four counters of the
\* settings whose own boolean is true, whatever the other three are, and
\* changes nothing else; settings with every boolean false change nothing.
C26_SettingsCountedIndependently ==
    Applied("countSecuritySettings") =>
        LET s == aggOp[1].settings IN
        /\ aggMetrics =
              [aggBefore EXCEPT
                 !.codeScanningEnabled =
                     @ + (IF s.CodeScanningEnabled THEN 1 ELSE 0),
                 !.secretScanningEnabled =
                     @ + (IF s.SecretScanning THEN 1 ELSE 0),
                 !.secretScanningPushProtection =
                     @ + (IF s.SecretScanningPushProtection THEN 1 ELSE 0),
                 !.dependabotSecurityUpdatesEnabled =
                     @ + (IF s.DependabotSecurityUpdates THEN 1 ELSE 0)]
        /\ s = AllFalseSettings => aggMetrics = aggBefore

C26_Witness ==
    /\ Applied("countSecuritySettings")
    /\ aggOp[1].settings.SecretScanningPushProtection
    /\ ~aggOp[1].settings.SecretScanning
    /\ aggMetrics.secretScanningPushProtection = 2
    /\ aggMetrics.secretScanningEnabled = 0
    /\ aggMetrics.totalRepos = 2


\* C27: in every state of the aggregator each of the seven counters of the
\* flags of a rule is at most branchProtectionEnabled, which is at most
\* totalRepos; so in every report no percentage of branch_protection_rules
\* exceeds branch_protection_coverage.
C27_RuleCountersBelowProtected ==
    /\ \A c \in BranchProtectionCounters :
          metrics[c] <= metrics.branchProtectionEnabled
    /\ metrics.branchProtectionEnabled <= metrics.totalRepos
    /\ ReportReturned =>
          \A x \in Range(posture[1].branch_protection_rules) :
              x <= posture[1].posture.branch_protection_coverage

C27_Witness ==
    /\ ReportReturned
    /\ metrics.totalRepos = 2
    /\ metrics.branchProtectionEnabled = 1
    /\ metrics.requireStatusChecks = 1
    /\ metrics.enforceAdmins = 0
    /\ posture[1].posture.branch_protection_coverage = 50
    /\ posture[1].branch_protection_rules.status_checks = 50
    /\ posture[1].branch_protection_rules.admin_enforcement = 0


\* the five percentages of security_features in the report of aggregator m
FeaturePercentages(m) == Range(toSecurityFeatures(m))

\* C28: in every report with at least one included repository
\* security_features_coverage is at least the smallest and at most the
\* largest of the five percentages of security_features, and at least the
\* average, rounded down, of those five percentages.
C28_CoverageWithinFeatures ==
    (fnValue # Nil /\ fnMetrics.totalRepos >= 1) =>
        LET p == fnValue[1]
            S == FeaturePercentages(fnMetrics)
            features == toSecurityFeatures(fnMetrics)
        IN  /\ \E x \in S : x <= p
            /\ \E x \in S : p <= x
            /\ p >= (features.vulnerability_alerts + features.code_scanning
                       + features.secret_scanning
                       + features.secret_scanning_push_protection
                       + features.dependabot_security_updates) \div 5

C28_Witness ==
    /\ fnValue = Ptr(46)
    /\ fnMetrics.totalRepos = 3
    /\ FeaturePercentages(fnMetrics) = {0, 33, 66, 100}


\* the invocations of OnProgress so far, in order
ProgressNotes ==
    LET Is(x) == x.kind = "progress" IN SelectSeq(notes, Is)

\* the positions of the history of callbacks with "Collection complete"
CompleteNotes ==
    {i \in 1..Len(notes) : /\ notes[i].kind = "status"
                           /\ notes[i].message = "Collection complete"}

\* C29: with the callbacks set, OnProgress is invoked once for each accepted
\* repository, just before the settings of that repository are fetched,
\* with current 1, 2, ... in order and total the included count on every
\* invocation (so never when nothing is included); the status "Collection
\* complete" is reported iff Collect returns a report, after the report is
\* populated.
C29_ProgressOncePerAccepted ==
    callbacks = "set" =>
        LET fetched == EventsOf("FetchSecuritySettings")
            waiting == IF pc = "FetchSecuritySettings" THEN 1 ELSE 0
        IN  /\ Len(ProgressNotes) = Len(fetched) + waiting
            /\ Len(ProgressNotes) <= metrics.totalRepos
            /\ ReportReturned => Len(ProgressNotes) = metrics.totalRepos
            /\ \A k \in 1..Len(ProgressNotes) :
                  /\ ProgressNotes[k].current = k
                  /\ ProgressNotes[k].total = metrics.totalRepos
                  /\ ProgressNotes[k].name = metrics.repos[k].name
                  /\ k <= Len(fetched) =>
                        fetched[k].name = ProgressNotes[k].name
            /\ (CompleteNotes # {}) <=> ReportReturned
            /\ ReportReturned =>
                  /\ CompleteNotes = {Len(notes)}
                  /\ calls[Len(calls)] = EvPopulate

C29_Witness ==
    /\ callbacks = "set"
    /\ ReportReturned
    /\ Len(ProgressNotes) >= 2
    /\ ProgressNotes[2].current = 2
    /\ ProgressNotes[2].total = metrics.totalRepos
    /\ Failed("FetchSecuritySettings")
    /\ notes[Len(notes)].message = "Collection complete"


\* C30: if every client call returns and the upstream in the end fails or
\* delivers a page with HasNextPage=false, Collect eventually returns, and
\* returns either a report or an error, never both and never neither; the
\* loop of fetchSecuritySettings makes one iteration for each accepted
\* repository, the list of identities being unchanged while it runs; and
\* FetchRepositories queries again after every page with HasNextPage=true,
\* however many pages it has fetched.
C30_CollectTerminates ==
    /\ <>(pc = "returned")
    /\ [](pc = "returned" => ((posture = Nil) # (err = Nil)))
    /\ [](ReportReturned =>
             /\ Len(metrics.repos) = Len(AcceptedEvents)
             /\ NumEvents(calls, "FetchSecuritySettings") = Len(AcceptedEvents))
    /\ [](pc = "FetchSecuritySettings" =>
             NumEvents(calls, "FetchSecuritySettings") = idx - 1)
    /\ [][pc = "FetchSecuritySettings" => metrics'.repos = metrics.repos]_vars
    /\ [][(pc = "FetchRepositories" /\ hasNextPage' /\ err' = Nil)
             => pc' = "FetchRepositories"]_vars

C30_Witness ==
    /\ ReportReturned
    /\ err = Nil
    /\ cursor = Ptr("Y3Vyc29yOjI")
    /\ Len(metrics.repos) = 2
    /\ NumEvents(calls, "FetchSecuritySettings") = 2

=============================================================================
